---- MODULE Spec2Model ----
(***************************************************************************)
(* A model of annotations/classification/multiclass_single_binomial_tax.py *)
(* (taxonomic single-binomial crowdsourcing model): the flat taxonomy      *)
(* index, the worker confusion model (M, N), the label posterior engine    *)
(* and the parameter estimator.                                            *)
(*                                                                         *)
(* Numbers.  numpy's floating point values are modelled by exact           *)
(* non-negative rationals <<n, d>> in lowest terms.  A sum of logarithms   *)
(* is modelled by the product of the arguments and exp(log x) by x, so a   *)
(* log-likelihood of -inf is the rational 0; the one place where the code  *)
(* produces NaN (every class at -inf) is modelled by the value NaN.        *)
(* Rounding is not modelled.                                               *)
(***************************************************************************)
EXTENDS Integers, Sequences, FiniteSets, TLC

(***************************************************************************)
(* Bounds of the model.                                                    *)
(***************************************************************************)
\* Largest number of nodes of a taxonomy of the index specification.
MaxNodes == 5

(***************************************************************************)
(* Exact rational arithmetic (numpy float arithmetic).                     *)
(***************************************************************************)
RECURSIVE Gcd(_, _)
Gcd(a, b) == IF b = 0 THEN a ELSE Gcd(b, a % b)

\* The rational n/d (n >= 0, d > 0) in lowest terms.
Rat(n, d) == LET g == Gcd(n, d) IN <<n \div g, d \div g>>

Zero == <<0, 1>>
One == <<1, 1>>
\* numpy's nan: the result of -inf - (-inf).
NaN == <<0, 0>>

RAdd(a, b) ==
    LET g == Gcd(a[2], b[2])
    IN  Rat(a[1] * (b[2] \div g) + b[1] * (a[2] \div g), (a[2] \div g) * b[2])

\* a - b, for b <= a.
RSub(a, b) ==
    LET g == Gcd(a[2], b[2])
    IN  Rat(a[1] * (b[2] \div g) - b[1] * (a[2] \div g), (a[2] \div g) * b[2])

RMul(a, b) ==
    LET g1 == Gcd(a[1], b[2])
        g2 == Gcd(b[1], a[2])
    IN  Rat((a[1] \div g1) * (b[1] \div g2), (a[2] \div g2) * (b[2] \div g1))

\* a / b, for b > 0.
RDiv(a, b) == RMul(a, <<b[2], b[1]>>)

\* n1/d1 < n2/d2, compared by continued fractions (no large products).
RECURSIVE FracLess(_, _, _, _)
FracLess(n1, d1, n2, d2) ==
    LET q1 == n1 \div d1
        q2 == n2 \div d2
        r1 == n1 % d1
        r2 == n2 % d2
    IN  IF q1 # q2 THEN q1 < q2
        ELSE IF r2 = 0 THEN FALSE
        ELSE IF r1 = 0 THEN TRUE
        ELSE FracLess(d2, r2, d1, r1)

RLess(a, b) == FracLess(a[1], a[2], b[1], b[2])
RLeq(a, b) == ~RLess(b, a)

\* np.clip(x, a_min, a_max)
RClip(x, lo, hi) == IF RLess(x, lo) THEN lo ELSE IF RLess(hi, x) THEN hi ELSE x

\* The sum of the values of a function with a finite domain of integers.
RECURSIVE RSumTo(_, _, _)
RSumTo(f, lo, hi) == IF hi < lo THEN Zero ELSE RAdd(RSumTo(f, lo, hi - 1), f[hi])

\* The product of the values f[lo..hi].
RECURSIVE RProdTo(_, _, _)
RProdTo(f, lo, hi) == IF hi < lo THEN One ELSE RMul(RProdTo(f, lo, hi - 1), f[hi])

(***************************************************************************)
(* The likelihoods of the classes and the risk are products and sums of    *)
(* many such values; they are kept as exact fractions <<n, d>> of natural  *)
(* numbers of any size, a number being the sequence of its digits in base  *)
(* LimbBase, lowest digit first, without leading zeros (0 is <<>>).  The   *)
(* fractions are not reduced: they are compared by BigRatEq / BigRatLess.  *)
(***************************************************************************)
LimbBase == 10000

RECURSIVE BigOf(_)
BigOf(n) == IF n = 0 THEN <<>> ELSE <<n % LimbBase>> \o BigOf(n \div LimbBase)

\* a + b + carry
RECURSIVE BigAddCarry(_, _, _)
BigAddCarry(a, b, carry) ==
    IF a = <<>> /\ b = <<>> THEN BigOf(carry)
    ELSE LET x == IF a = <<>> THEN 0 ELSE Head(a)
             y == IF b = <<>> THEN 0 ELSE Head(b)
             sum == x + y + carry
         IN  <<sum % LimbBase>>
                \o BigAddCarry(IF a = <<>> THEN a ELSE Tail(a),
                               IF b = <<>> THEN b ELSE Tail(b), sum \div LimbBase)

BigAdd(a, b) == BigAddCarry(a, b, 0)

\* The digits without the leading zeros.
RECURSIVE BigStrip(_)
BigStrip(a) ==
    IF a = <<>> THEN a
    ELSE IF a[Len(a)] = 0 THEN BigStrip(SubSeq(a, 1, Len(a) - 1)) ELSE a

\* a - b - borrow digit by digit, for b + borrow <= a
RECURSIVE BigSubBorrow(_, _, _)
BigSubBorrow(a, b, borrow) ==
    IF a = <<>> THEN <<>>
    ELSE LET y == IF b = <<>> THEN 0 ELSE Head(b)
             diff == Head(a) - y - borrow
         IN  <<IF diff < 0 THEN diff + LimbBase ELSE diff>>
                \o BigSubBorrow(Tail(a), IF b = <<>> THEN b ELSE Tail(b),
                                IF diff < 0 THEN 1 ELSE 0)

BigSub(a, b) == BigStrip(BigSubBorrow(a, b, 0))

\* a * m + carry, for a digit m
RECURSIVE BigMulDigit(_, _, _)
BigMulDigit(a, m, carry) ==
    IF a = <<>> THEN BigOf(carry)
    ELSE LET prod == Head(a) * m + carry
         IN  <<prod % LimbBase>> \o BigMulDigit(Tail(a), m, prod \div LimbBase)

RECURSIVE BigMul(_, _)
BigMul(a, b) ==
    IF a = <<>> \/ b = <<>> THEN <<>>
    ELSE LET rest == BigMul(a, Tail(b))
         IN  BigAdd(BigStrip(BigMulDigit(a, Head(b), 0)),
                    IF rest = <<>> THEN rest ELSE <<0>> \o rest)

\* a < b
RECURSIVE BigLess(_, _)
BigLess(a, b) ==
    IF Len(a) # Len(b) THEN Len(a) < Len(b)
    ELSE IF a = <<>> THEN FALSE
    ELSE IF a[Len(a)] # b[Len(b)] THEN a[Len(a)] < b[Len(b)]
    ELSE BigLess(SubSeq(a, 1, Len(a) - 1), SubSeq(b, 1, Len(b) - 1))

\* Fractions of such numbers; BigRat(x) is the fraction of the rational x.
BigRat(x) == <<BigOf(x[1]), BigOf(x[2])>>
BigZero == BigRat(Zero)
BigOne == BigRat(One)
BigNaN == BigRat(NaN)

BigRatMul(a, b) ==
    IF a[1] = <<>> \/ b[1] = <<>> THEN BigZero ELSE <<BigMul(a[1], b[1]), BigMul(a[2], b[2])>>

BigRatAdd(a, b) ==
    IF a[1] = <<>> THEN b
    ELSE IF b[1] = <<>> THEN a
    ELSE <<BigAdd(BigMul(a[1], b[2]), BigMul(b[1], a[2])), BigMul(a[2], b[2])>>

\* 1 - a / b, for 0 <= a <= b and 0 < b
BigRatComplementOfShare(a, b) ==
    LET n == BigMul(a[1], b[2])
        d == BigMul(a[2], b[1])
    IN  IF n = d THEN BigZero ELSE <<BigSub(d, n), d>>

BigRatEq(a, b) == BigMul(a[1], b[2]) = BigMul(b[1], a[2])
BigRatLess(a, b) == BigLess(BigMul(a[1], b[2]), BigMul(b[1], a[2]))
BigRatLeq(a, b) == ~BigRatLess(b, a)

\* The products and sums of the values f[lo..hi].
RECURSIVE BigRatProdTo(_, _, _)
BigRatProdTo(f, lo, hi) ==
    IF hi < lo THEN BigOne ELSE BigRatMul(BigRatProdTo(f, lo, hi - 1), f[hi])

RECURSIVE BigRatSumTo(_, _, _)
BigRatSumTo(f, lo, hi) ==
    IF hi < lo THEN BigZero ELSE BigRatAdd(BigRatSumTo(f, lo, hi - 1), f[hi])

(***************************************************************************)
(* Small helpers on sequences.                                             *)
(***************************************************************************)
Range(s) == {s[i] : i \in DOMAIN s}

\* list.index(x)
IndexOf(s, x) == CHOOSE i \in 1..Len(s) : s[i] = x /\ \A j \in 1..(i - 1) : s[j] # x

\* The sequences that enumerate the set S once each.
Perms(S) ==
    {s \in [1..Cardinality(S) -> S] : \A i, j \in 1..Cardinality(S) : i # j => s[i] # s[j]}

\* The concatenation of a sequence of sequences.
RECURSIVE Concat(_)
Concat(ss) == IF ss = <<>> THEN <<>> ELSE Head(ss) \o Concat(Tail(ss))

Reverse(s) == [i \in 1..Len(s) |-> s[Len(s) + 1 - i]]

\* The integers lo..hi as a sequence (xrange).
XRange(lo, hi) == [i \in 1..(IF hi < lo THEN 0 ELSE hi - lo + 1) |-> lo + i - 1]

Max(S) == CHOOSE x \in S : \A y \in S : y <= x

(***************************************************************************)
(* The taxonomy (util.taxonomy.Taxonomy): a rooted tree of keyed nodes     *)
(* with an ordered enumeration of its inner nodes and of its leaf nodes.   *)
(***************************************************************************)
KeyNames == <<"root", "a", "b", "c", "d", "e", "f", "g">>
NoKey == "none"

KeyIndex(k) == CHOOSE i \in 1..Len(KeyNames) : KeyNames[i] = k

\* The parent maps of the trees on the first n keys whose root is KeyNames[1];
\* each node's parent is an earlier key, which covers every tree shape.
TreeParents(n) ==
    {[k \in {KeyNames[i] : i \in 1..n} |->
        IF k = KeyNames[1] THEN NoKey ELSE KeyNames[f[KeyIndex(k)]]] :
        f \in {g \in [2..n -> 1..(n - 1)] : \A i \in 2..n : g[i] < i}}

\* node.children, in key order
children(t, k) == SelectSeq(KeyNames, LAMBDA c : c \in t.nodes /\ t.parent[c] = k)

is_leaf(t, k) == \A c \in t.nodes : t.parent[c] # k
is_root(t, k) == t.parent[k] = NoKey

\* node.ancestors: from the parent up to the root
RECURSIVE ancestors(_, _)
ancestors(t, k) ==
    IF t.parent[k] = NoKey THEN <<>> ELSE <<t.parent[k]>> \o ancestors(t, t.parent[k])

level(t, k) == Len(ancestors(t, k))
max_depth(t) == Max({level(t, k) : k \in t.nodes})
InnerKeys(t) == {k \in t.nodes : ~is_leaf(t, k)}
LeafKeys(t) == {k \in t.nodes : is_leaf(t, k)}
num_inner_nodes(t) == Cardinality(InnerKeys(t))
num_leaf_nodes(t) == Cardinality(LeafKeys(t))

\* The occurrence priors to draw from for the leaves of a taxonomy: uniform, or
\* skewed, the first enumerated leaf at 4/5 and the others sharing 1/5.
ClassProbChoices(leaf_nodes) ==
    LET n == Len(leaf_nodes)
    IN  {[k \in Range(leaf_nodes) |-> Rat(1, n)]}
        \cup (IF n < 2 THEN {}
              ELSE {[k \in Range(leaf_nodes) |->
                        IF k = leaf_nodes[1] THEN Rat(4, 5) ELSE Rat(1, 5 * (n - 1))]})

\* The taxonomies of at most n nodes, with every enumeration order of the inner
\* nodes and the leaves enumerated in key order or in reverse key order; not
\* finalized and priors not yet initialized.
Taxonomies(n) ==
    UNION {
        LET nodes == DOMAIN par
            t0 == [nodes |-> nodes, parent |-> par]
            keyorder == SelectSeq(KeyNames, LAMBDA k : k \in LeafKeys(t0))
        IN  {[nodes |-> nodes, parent |-> par, inner_nodes |-> io, leaf_nodes |-> lo,
              finalized |-> FALSE, priors_initialized |-> FALSE,
              prob |-> [k \in nodes |-> Zero]] :
                io \in Perms(InnerKeys(t0)), lo \in {keyorder, Reverse(keyorder)}}
        : par \in UNION {TreeParents(m) : m \in 2..n}}

\* The same, with the root enumerated first among the inner nodes.
RootFirstTaxonomies(n) == {t \in Taxonomies(n) : t.inner_nodes[1] = KeyNames[1]}

\* Taxonomy.finalize()
finalized_taxonomy(t) == [t EXCEPT !.finalized = TRUE]

\* initialize_default_priors: node.data['prob'] of a leaf is its class
\* probability and of an inner node the sum over the leaves below it.
RECURSIVE SumProbs(_, _)
SumProbs(class_probs, leaves) ==
    IF leaves = <<>> THEN Zero
    ELSE RAdd(class_probs[Head(leaves)], SumProbs(class_probs, Tail(leaves)))

initialize_default_priors_of(t, class_probs) ==
    [t EXCEPT
        !.prob = [k \in t.nodes |->
            IF is_leaf(t, k) THEN class_probs[k]
            ELSE SumProbs(class_probs,
                    SelectSeq(t.leaf_nodes, LAMBDA l : k \in Range(ancestors(t, l))))],
        !.priors_initialized = TRUE]

(***************************************************************************)
(* initialize_data_structures: the flat index of the taxonomy.             *)
(***************************************************************************)
\* id_offset = i + 1, with i the index of the last inner node enumerated
id_offset(i) == i + 1

\* A slip in the leaf ids: the offset forgotten.
leaf_integer_id_no_offset(i, offset) == i

\* integer_id = i + id_offset, the id of the i-th leaf node enumerated
leaf_integer_id(i, offset) == i + offset

leaf_integer_ids_of(t) ==
    [j \in 1..Len(t.leaf_nodes) |->
        leaf_integer_id(j - 1, id_offset(Len(t.inner_nodes) - 1))]

\* The dict filled by the two enumerate loops (a later store wins).
orig_node_key_to_integer_id_of(t) ==
    [k \in Range(t.inner_nodes) \cup Range(t.leaf_nodes) |->
        IF k \in Range(t.leaf_nodes)
        THEN leaf_integer_ids_of(t)[IndexOf(t.leaf_nodes, k)]
        ELSE IndexOf(t.inner_nodes, k) - 1]

integer_id_to_orig_node_key_of(t) ==
    LET lids == leaf_integer_ids_of(t)
    IN  [i \in (0..(Len(t.inner_nodes) - 1)) \cup Range(lids) |->
            IF i \in Range(lids)
            THEN t.leaf_nodes[Max({j \in 1..Len(lids) : lids[j] = i})]
            ELSE t.inner_nodes[i + 1]]

\* len(self.taxonomy.nodes)
num_nodes_of(t) == Cardinality(t.nodes)

\* The loops from line 214 on look every id below num_nodes up (KeyError if
\* the id was never assigned).
IdsComplete(t, id2k) == \A i \in 0..(num_nodes_of(t) - 1) : i \in DOMAIN id2k

node_priors_of(t, id2k) == [i \in 0..(num_nodes_of(t) - 1) |-> t.prob[id2k[i]]]

\* [parent id, child ids ...] for every inner id
parent_and_siblings_indices_of(t, k2id, id2k) ==
    [j \in 1..id_offset(Len(t.inner_nodes) - 1) |->
        LET ch == children(t, id2k[j - 1])
        IN  <<j - 1>> \o [c \in DOMAIN ch |-> k2id[ch[c]]]]

\* The parent id of every node but the root, in id order.
parent_indices_of(t, k2id, id2k) ==
    LET ids == SelectSeq(XRange(0, num_nodes_of(t) - 1), LAMBDA i : ~is_root(t, id2k[i]))
    IN  [j \in 1..Len(ids) |-> k2id[t.parent[id2k[ids[j]]]]]

max_path_length_of(t) == max_depth(t) + 1

\* A slip in the path: orig_path.reverse() left out.
orig_path_not_reversed(t, k) == ancestors(t, k) \o <<k>>

\* orig_path: the ancestors reversed (root first), then the node itself
orig_path(t, k) == Reverse(ancestors(t, k)) \o <<k>>

\* integer_id_path of the node with key k
integer_id_path(t, k2id, k) ==
    LET path == orig_path(t, k)
    IN  [j \in 1..Len(path) |-> k2id[path[j]]]

\* A row of a path table: the path, then the padding value.
padded_path(path, length, pad) ==
    [p \in 0..(length - 1) |-> IF p < Len(path) THEN path[p + 1] ELSE pad]

root_to_node_path_list_of(t, k2id, id2k) ==
    [id \in 0..(num_nodes_of(t) - 1) |-> integer_id_path(t, k2id, id2k[id])]

anno_node_index_list_padded_neg_2_of(t, paths) ==
    [id \in DOMAIN paths |-> padded_path(paths[id], max_path_length_of(t), -2)]

\* One row per leaf node, in id order (class_index).
class_node_index_list_padded_neg_1_of(t, paths, id2k) ==
    LET leaf_ids == SelectSeq(XRange(0, num_nodes_of(t) - 1), LAMBDA i : is_leaf(t, id2k[i]))
    IN  [y \in 0..(num_leaf_nodes(t) - 1) |->
            padded_path(paths[leaf_ids[y + 1]], max_path_length_of(t), -1)]

\* assert max(integer_id_path[:-1]) < self.taxonomy.num_inner_nodes
PathAssertionFails(t, paths) ==
    \E id \in DOMAIN paths :
        \E j \in 1..(Len(paths[id]) - 1) : paths[id][j] >= num_inner_nodes(t)

\* np.sum(path_to_z >= 0) - 1, for the annotation node z
z_level_of(path_to_z) == Cardinality({p \in DOMAIN path_to_z : path_to_z[p] >= 0}) - 1

\* The (y, z, i) visited by the loops of lines 298-311, in loop order.
ScatterTriples(cls, anno) ==
    Concat([yy \in 1..Cardinality(DOMAIN cls) |->
        Concat([z \in 1..(Cardinality(DOMAIN anno) - 1) |->
            [ii \in 1..z_level_of(anno[z]) |-> <<yy - 1, z, ii - 1>>]])])

\* if y_node_index == z_node_index
NodesMatch(cls, anno, tr) == cls[tr[1]][tr[3]] = anno[tr[2]][tr[3]]

\* A slip in the walk: it stops at the first position where the nodes differ.
NodesDiverge_first_position_only(cls, anno, tr) ==
    /\ ~NodesMatch(cls, anno, tr)
    /\ anno[tr[2]][tr[3]] >= 0
    /\ (tr[3] = 0 \/ cls[tr[1]][tr[3] - 1] = anno[tr[2]][tr[3] - 1])

\* elif z_node_index >= 0
NodesDiverge(cls, anno, tr) == ~NodesMatch(cls, anno, tr) /\ anno[tr[2]][tr[3]] >= 0

y_node_child_index(cls, tr) == cls[tr[1]][tr[3] + 1]
z_node_child_index(anno, tr) == anno[tr[2]][tr[3] + 1]

\* The assertions of lines 319, 320 and 339 switched off.
ScatterAssertionFails_never(cls, anno) == FALSE

\* The assertions of lines 319, 320 and 339.
ScatterAssertionFails(cls, anno) ==
    LET trs == ScatterTriples(cls, anno)
    IN  \E j \in DOMAIN trs :
            \/ NodesMatch(cls, anno, trs[j]) /\ ~(y_node_child_index(cls, trs[j]) > 0)
            \/ NodesMatch(cls, anno, trs[j]) /\ ~(z_node_child_index(anno, trs[j]) > 0)
            \/ NodesDiverge(cls, anno, trs[j]) /\ ~(z_node_child_index(anno, trs[j]) >= 0)

MatchTriples(cls, anno) ==
    SelectSeq(ScatterTriples(cls, anno), LAMBDA tr : NodesMatch(cls, anno, tr))
DivergeTriples(cls, anno) ==
    SelectSeq(ScatterTriples(cls, anno), LAMBDA tr : NodesDiverge(cls, anno, tr))

\* [[y ...], [z ...], [i ...]]: where a value of M goes in annotation_probs
annotation_probs_insert_from_M_of(cls, anno) ==
    LET trs == MatchTriples(cls, anno)
    IN  <<[j \in DOMAIN trs |-> trs[j][1]], [j \in DOMAIN trs |-> trs[j][2]],
          [j \in DOMAIN trs |-> trs[j][3]]>>

\* [[row ...], [col ...]]: the cell of M read
annotation_probs_M_indices_of(cls, anno) ==
    LET trs == MatchTriples(cls, anno)
    IN  <<[j \in DOMAIN trs |-> y_node_child_index(cls, trs[j])],
          [j \in DOMAIN trs |-> z_node_child_index(anno, trs[j])]>>

annotation_probs_insert_from_N_of(cls, anno) ==
    LET trs == DivergeTriples(cls, anno)
    IN  <<[j \in DOMAIN trs |-> trs[j][1]], [j \in DOMAIN trs |-> trs[j][2]],
          [j \in DOMAIN trs |-> trs[j][3]]>>

annotation_probs_N_indices_of(cls, anno) ==
    LET trs == DivergeTriples(cls, anno)
    IN  <<[j \in DOMAIN trs |-> z_node_child_index(anno, trs[j])]>>

\* The index arrays of M's diagonal: for each parent, its skill read once per
\* child and written at [child, child].
skill_vector_correct_read_indices_of(psi) ==
    Concat([j \in DOMAIN psi |-> [s \in 1..(Len(psi[j]) - 1) |-> psi[j][1]]])

M_correct_rows_of(psi) == Concat([j \in DOMAIN psi |-> Tail(psi[j])])

\* The (parent, r, c) of the off-diagonal loop, r and c siblings, r # c.
IncorrectTriples(psi) ==
    Concat([j \in DOMAIN psi |->
        LET sib == Tail(psi[j])
            m == Len(sib)
        IN  SelectSeq([q \in 1..(m * m) |->
                        <<psi[j][1], sib[((q - 1) \div m) + 1], sib[((q - 1) % m) + 1]>>],
                      LAMBDA e : e[2] # e[3])])

\* np.ones(num_inner_nodes) * value
constant_vector(n, value) == [i \in 0..(n - 1) |-> value]

(***************************************************************************)
(* The state.                                                              *)
(***************************************************************************)
VARIABLES
    taxonomy,   \* the dataset's taxonomy
    params,     \* the dataset's hyperparameters and mode flags
    index,      \* the data structures of initialize_data_structures
    workers,    \* worker id -> the worker's parameters
    images,     \* image id -> annotations, label, risk, finished
    ret         \* the outcome of the last operation

vars == <<taxonomy, params, index, workers, images, ret>>

\* Constructor defaults of CrowdDatasetMulticlassSingleBinomial.
DefaultProbCorrectBeta == 10
DefaultProbTrustBeta == 10
DefaultProbCorrectPrior == Rat(4, 5)
DefaultProbCorrect == Rat(4, 5)
DefaultProbTrust == Rat(4, 5)

DefaultParams ==
    [prob_correct_prior |-> DefaultProbCorrectPrior,
     prob_correct_beta |-> DefaultProbCorrectBeta,
     prob_correct |-> DefaultProbCorrect,
     prob_trust_beta |-> DefaultProbTrustBeta,
     prob_trust |-> DefaultProbTrust,
     model_worker_trust |-> FALSE,
     recursive_trust |-> TRUE,
     naive_computer_vision |-> FALSE,
     min_risk |-> Rat(1, 20)]

\* No attribute of the index exists yet.  stage tells which attributes exist:
\* from 1 the id maps (line 202), from 2 the priors and parent lists (line
\* 246), from 3 the path tables (line 286), at 4 all of them.
NoIndex ==
    [stage |-> 0,
     orig_node_key_to_integer_id |-> <<>>,
     integer_id_to_orig_node_key |-> <<>>,
     leaf_integer_ids |-> <<>>,
     leaf_node_key_set |-> {},
     leaf_node_keys |-> {},
     node_priors |-> <<>>,
     parent_and_siblings_indices |-> <<>>,
     parent_indices |-> <<>>,
     class_node_index_list_padded_neg_1 |-> <<>>,
     anno_node_index_list_padded_neg_2 |-> <<>>,
     root_to_node_path_list |-> <<>>,
     annotation_probs_insert_from_M |-> <<>>,
     annotation_probs_M_indices |-> <<>>,
     annotation_probs_insert_from_N |-> <<>>,
     annotation_probs_N_indices |-> <<>>,
     skill_vector_correct_read_indices |-> <<>>,
     M_correct_rows |-> <<>>,
     M_correct_cols |-> <<>>,
     skill_vector_incorrect_read_indices |-> <<>>,
     skill_vector_node_priors_read_indices |-> <<>>,
     M_incorrect_rows |-> <<>>,
     M_incorrect_cols |-> <<>>,
     default_skill_vector |-> <<>>,
     pooled_prob_correct_vector |-> <<>>]

Max2(a, b) == IF a >= b THEN a ELSE b

\* A run of initialize_data_structures on taxonomy t with hyperparameters p:
\* the attributes assigned before the run ends or fails are new, the others
\* are left as they were.  The run reaches stage 0 when an assertion of lines
\* 170-171 fails, 1 on a KeyError at line 217, 2 when the assertion of line
\* 275 fails, 3 when one of lines 319, 320, 339 fails, and 4 when it returns.
\* A slip in the preconditions: the priors are not asserted.
PreconditionsHold_finalized_only(t) == t.finalized

\* assert self.taxonomy.finalized; assert self.taxonomy.priors_initialized
PreconditionsHold(t) == t.finalized /\ t.priors_initialized

IndexAfter(old, t, p) ==
    LET k2id == orig_node_key_to_integer_id_of(t)
        id2k == integer_id_to_orig_node_key_of(t)
        psi == parent_and_siblings_indices_of(t, k2id, id2k)
        paths == root_to_node_path_list_of(t, k2id, id2k)
        anno == anno_node_index_list_padded_neg_2_of(t, paths)
        cls == class_node_index_list_padded_neg_1_of(t, paths, id2k)
        inc == IncorrectTriples(psi)
        s == IF ~PreconditionsHold(t) THEN 0
             ELSE IF ~IdsComplete(t, id2k) THEN 1
             ELSE IF PathAssertionFails(t, paths) THEN 2
             ELSE IF ScatterAssertionFails(cls, anno) THEN 3
             ELSE 4
    IN  [reached |-> s, attrs |->
        [stage |-> Max2(old.stage, s),
         orig_node_key_to_integer_id |-> IF s >= 1 THEN k2id ELSE old.orig_node_key_to_integer_id,
         integer_id_to_orig_node_key |-> IF s >= 1 THEN id2k ELSE old.integer_id_to_orig_node_key,
         leaf_integer_ids |-> IF s >= 1 THEN leaf_integer_ids_of(t) ELSE old.leaf_integer_ids,
         leaf_node_key_set |-> IF s >= 1 THEN Range(t.leaf_nodes) ELSE old.leaf_node_key_set,
         leaf_node_keys |-> IF s >= 1 THEN Range(t.leaf_nodes) ELSE old.leaf_node_keys,
         node_priors |-> IF s >= 2 THEN node_priors_of(t, id2k) ELSE old.node_priors,
         parent_and_siblings_indices |-> IF s >= 2 THEN psi ELSE old.parent_and_siblings_indices,
         parent_indices |->
            IF s >= 2 THEN parent_indices_of(t, k2id, id2k) ELSE old.parent_indices,
         class_node_index_list_padded_neg_1 |->
            IF s >= 3 THEN cls ELSE old.class_node_index_list_padded_neg_1,
         anno_node_index_list_padded_neg_2 |->
            IF s >= 3 THEN anno ELSE old.anno_node_index_list_padded_neg_2,
         root_to_node_path_list |-> IF s >= 3 THEN paths ELSE old.root_to_node_path_list,
         annotation_probs_insert_from_M |->
            IF s >= 4 THEN annotation_probs_insert_from_M_of(cls, anno)
            ELSE old.annotation_probs_insert_from_M,
         annotation_probs_M_indices |->
            IF s >= 4 THEN annotation_probs_M_indices_of(cls, anno)
            ELSE old.annotation_probs_M_indices,
         annotation_probs_insert_from_N |->
            IF s >= 4 THEN annotation_probs_insert_from_N_of(cls, anno)
            ELSE old.annotation_probs_insert_from_N,
         annotation_probs_N_indices |->
            IF s >= 4 THEN annotation_probs_N_indices_of(cls, anno)
            ELSE old.annotation_probs_N_indices,
         skill_vector_correct_read_indices |->
            IF s >= 4 THEN skill_vector_correct_read_indices_of(psi)
            ELSE old.skill_vector_correct_read_indices,
         M_correct_rows |-> IF s >= 4 THEN M_correct_rows_of(psi) ELSE old.M_correct_rows,
         M_correct_cols |-> IF s >= 4 THEN M_correct_rows_of(psi) ELSE old.M_correct_cols,
         skill_vector_incorrect_read_indices |->
            IF s >= 4 THEN [j \in DOMAIN inc |-> inc[j][1]]
            ELSE old.skill_vector_incorrect_read_indices,
         skill_vector_node_priors_read_indices |->
            IF s >= 4 THEN [j \in DOMAIN inc |-> inc[j][3]]
            ELSE old.skill_vector_node_priors_read_indices,
         M_incorrect_rows |->
            IF s >= 4 THEN [j \in DOMAIN inc |-> inc[j][2]] ELSE old.M_incorrect_rows,
         M_incorrect_cols |->
            IF s >= 4 THEN [j \in DOMAIN inc |-> inc[j][3]] ELSE old.M_incorrect_cols,
         default_skill_vector |->
            IF s >= 4 THEN constant_vector(num_inner_nodes(t), p.prob_correct)
            ELSE old.default_skill_vector,
         pooled_prob_correct_vector |->
            IF s >= 4 THEN constant_vector(num_inner_nodes(t), p.prob_correct_prior)
            ELSE old.pooled_prob_correct_vector]]

\* What an operation returned or raised: value is what build_M_and_N
\* returned, stage is how far initialize_data_structures got, early that
\* predict_true_labels returned before computing a label.
NoValue == [M |-> <<>>, N |-> <<>>, stage |-> 0, early |-> FALSE]
Outcome(op, who, error, value) == [op |-> op, who |-> who, error |-> error, value |-> value]
NoOutcome == Outcome("", 0, "", NoValue)

\* Taxonomy.finalize()
finalize ==
    /\ ~taxonomy.finalized
    /\ taxonomy' = finalized_taxonomy(taxonomy)
    /\ ret' = Outcome("finalize", 0, "", NoValue)
    /\ UNCHANGED <<params, index, workers, images>>

\* CrowdDatasetMulticlassSingleBinomial.initialize_default_priors
initialize_default_priors ==
    /\ ~taxonomy.priors_initialized
    /\ \E cp \in ClassProbChoices(taxonomy.leaf_nodes) :
         taxonomy' = initialize_default_priors_of(taxonomy, cp)
    /\ ret' = Outcome("initialize_default_priors", 0, "", NoValue)
    /\ UNCHANGED <<params, index, workers, images>>

\* CrowdDatasetMulticlassSingleBinomial.initialize_data_structures
initialize_data_structures ==
    LET run == IndexAfter(index, taxonomy, params)
    IN  /\ index' = run.attrs
        /\ ret' = Outcome("initialize_data_structures", 0,
                          IF run.reached = 1 THEN "KeyError"
                          ELSE IF run.reached < 4 THEN "AssertionError" ELSE "",
                          [NoValue EXCEPT !.stage = run.reached])
        /\ UNCHANGED <<taxonomy, params, workers, images>>

(***************************************************************************)
(* Workers: the confusion model.                                           *)
(***************************************************************************)
\* Python's None
None == <<>>

\* CrowdWorkerMulticlassSingleBinomial.__init__
NewWorker(p) ==
    [skill_vector |-> None, prob_trust |-> p.prob_trust, prob |-> None, skill |-> None,
     finished |-> FALSE, is_computer_vision |-> FALSE]

\* Slips in M's off-diagonal: the prior left out; the skill not complemented.
M_incorrect_value_no_prior(skill, prior) == RSub(One, skill)
M_incorrect_value_not_complemented(skill, prior) == RMul(skill, prior)

\* pnc = 1 - skill_vector[...]; ppnc = pnc * node_priors[...]  (M's off-diagonal)
M_incorrect_value(skill, prior) == RMul(RSub(One, skill), prior)

\* pnc = 1 - pc; ppnc = node_priors[1:] * pnc  (N)
N_value(skill, prior) == RMul(prior, RSub(One, skill))

\* M: zeros, then the two fancy-index assignments (a later store wins).
M_of(sv, idx) ==
    LET n == Len(idx.parent_indices) + 1
    IN  [r \in DOMAIN idx.node_priors |-> [c \in DOMAIN idx.node_priors |->
            LET inc == {k \in DOMAIN idx.M_incorrect_rows :
                            idx.M_incorrect_rows[k] = r /\ idx.M_incorrect_cols[k] = c}
                cor == {k \in DOMAIN idx.M_correct_rows :
                            idx.M_correct_rows[k] = r /\ idx.M_correct_cols[k] = c}
            IN  IF inc # {}
                THEN M_incorrect_value(
                        sv[idx.skill_vector_incorrect_read_indices[Max(inc)]],
                        idx.node_priors[idx.skill_vector_node_priors_read_indices[Max(inc)]])
                ELSE IF cor # {}
                THEN sv[idx.skill_vector_correct_read_indices[Max(cor)]]
                ELSE Zero]]

\* N: ones; N[1:] = node_priors[1:] * (1 - skill_vector[parent_indices])
N_of(sv, idx, t) ==
    [i \in 0..(num_nodes_of(t) - 1) |->
        IF i = 0 THEN One ELSE N_value(sv[idx.parent_indices[i]], idx.node_priors[i])]

\* CrowdWorkerMulticlassSingleBinomial.build_M_and_N: the pair returned
build_M_and_N_of(sv, idx, t) ==
    [M |-> M_of(sv, idx), N |-> N_of(sv, idx, t), stage |-> 0, early |-> FALSE]

\* build_M_and_N raises unless the index is complete (params.node_priors
\* exists) and the skill vector is set (None cannot be indexed).
CanBuild(w) == index.stage = 4 /\ workers[w].skill_vector # None

build_M_and_N(w) ==
    /\ ret' = IF CanBuild(w)
              THEN Outcome("build_M_and_N", w, "",
                           build_M_and_N_of(workers[w].skill_vector, index, taxonomy))
              ELSE Outcome("build_M_and_N", w,
                           IF index.stage < 4 THEN "AttributeError" ELSE "TypeError", NoValue)
    /\ UNCHANGED <<taxonomy, params, index, workers, images>>

\* CrowdDatasetMulticlassSingleBinomial.initialize_parameters
initialize_parameters_of(ws, p, idx, avoid_if_finished) ==
    [w \in DOMAIN ws |->
        IF avoid_if_finished /\ ws[w].finished THEN ws[w]
        ELSE [ws[w] EXCEPT
                !.prob_trust = IF p.model_worker_trust THEN p.prob_trust ELSE @,
                !.skill_vector = idx.default_skill_vector]]

initialize_parameters(avoid_if_finished) ==
    /\ index.stage = 4
    /\ workers' = initialize_parameters_of(workers, params, index, avoid_if_finished)
    /\ ret' = Outcome("initialize_parameters", 0, "", NoValue)
    /\ UNCHANGED <<taxonomy, params, index, images>>

\* A slip in the encoding: the list is written back to front.
encode_worker_reversed(wk) ==
    IF wk.skill_vector # None
    THEN [skill_vector |-> [j \in 1..Cardinality(DOMAIN wk.skill_vector) |->
                                wk.skill_vector[Cardinality(DOMAIN wk.skill_vector) - j]],
          has_skill_vector |-> TRUE]
    ELSE [skill_vector |-> <<>>, has_skill_vector |-> FALSE]

\* CrowdWorkerMulticlassSingleBinomial.encode: data['skill_vector'] = tolist()
encode_worker(wk) ==
    IF wk.skill_vector # None
    THEN [skill_vector |-> [j \in 1..Cardinality(DOMAIN wk.skill_vector) |-> wk.skill_vector[j - 1]],
          has_skill_vector |-> TRUE]
    ELSE [skill_vector |-> <<>>, has_skill_vector |-> FALSE]

\* CrowdWorkerMulticlassSingleBinomial.parse: skill_vector = np.array(data[...])
parse_worker(wk, data) ==
    IF data.has_skill_vector
    THEN [wk EXCEPT !.skill_vector = [i \in 0..(Len(data.skill_vector) - 1) |-> data.skill_vector[i + 1]]]
    ELSE wk

\* The skill values a stored worker may carry.
SkillValues == {Rat(9, 10), One}

\* The stored skill vectors, one value per inner node.
StoredSkillVectors(t) ==
    {[skill_vector |-> sv, has_skill_vector |-> TRUE] :
        sv \in [1..num_inner_nodes(t) -> SkillValues]}

\* The stored skill vectors with the same value at every inner node.
UniformSkillVectors(t) ==
    {data \in StoredSkillVectors(t) :
        \A i, j \in DOMAIN data.skill_vector : data.skill_vector[i] = data.skill_vector[j]}

\* encode of worker w: the data returned (no state of the worker changes)
encode(w) ==
    /\ ret' = Outcome("encode", w, "", encode_worker(workers[w]))
    /\ UNCHANGED <<taxonomy, params, index, workers, images>>

parse(w, stored) ==
    /\ \E data \in stored :
         workers' = [workers EXCEPT ![w] = parse_worker(@, data)]
    /\ ret' = Outcome("parse", w, "", NoValue)
    /\ UNCHANGED <<taxonomy, params, index, images>>

(***************************************************************************)
(* The index specification: every taxonomy of at most MaxNodes nodes, in   *)
(* every enumeration order, indexed, and one worker's confusion model (the *)
(* worker's stored skills are loaded once the index stands).               *)
(***************************************************************************)
InitIndex ==
    /\ taxonomy \in Taxonomies(MaxNodes)
    /\ params = DefaultParams
    /\ index = NoIndex
    /\ workers = [w \in {1} |-> NewWorker(params)]
    /\ images = <<>>
    /\ ret = NoOutcome

NextIndex ==
    \/ finalize
    \/ initialize_default_priors
    \/ initialize_data_structures
    \/ \E w \in DOMAIN workers : index.stage = 4 /\ workers[w].skill_vector = None
                                   /\ parse(w, StoredSkillVectors(taxonomy))
    \/ \E w \in DOMAIN workers : build_M_and_N(w)

SpecIndex == InitIndex /\ [][NextIndex]_vars

(***************************************************************************)
(* Properties of the index and of the confusion model (SpecIndex).         *)
(***************************************************************************)
\* The sum of M[r][c] over the columns c of the sequence cols.
RECURSIVE RowSum(_, _, _)
RowSum(M, r, cols) ==
    IF cols = <<>> THEN Zero ELSE RAdd(M[r][Head(cols)], RowSum(M, r, Tail(cols)))

\* The last operation was a build_M_and_N that returned (M, N).
Built == ret.op = "build_M_and_N" /\ ret.error = ""

\* The id of the node with key k, and the skill of the worker just built at it.
IdOf(k) == index.orig_node_key_to_integer_id[k]
BuiltSkill(k) == workers[ret.who].skill_vector[IdOf(k)]

\* C1: once initialize_data_structures has assigned the ids, the inner nodes
\* hold exactly the ids 0..numInner-1, the leaf nodes exactly the ids
\* numInner..numNodes-1, and key->id and id->key are inverse bijections over
\* all the nodes.
C1_IdsPartitionAndBijection ==
    index.stage >= 1 =>
        LET k2id == index.orig_node_key_to_integer_id
            id2k == index.integer_id_to_orig_node_key
            ni == num_inner_nodes(taxonomy)
            nn == num_nodes_of(taxonomy)
        IN  /\ DOMAIN k2id = taxonomy.nodes
            /\ DOMAIN id2k = 0..(nn - 1)
            /\ {k2id[k] : k \in InnerKeys(taxonomy)} = 0..(ni - 1)
            /\ {k2id[k] : k \in LeafKeys(taxonomy)} = ni..(nn - 1)
            /\ \A k \in taxonomy.nodes : id2k[k2id[k]] = k
            /\ \A i \in 0..(nn - 1) : k2id[id2k[i]] = i

\* C1 witness: a complete index of a taxonomy with several inner nodes and
\* several leaves, the leaves not enumerated in key order.
C1_Witness ==
    /\ index.stage = 4
    /\ num_inner_nodes(taxonomy) >= 2
    /\ num_leaf_nodes(taxonomy) >= 2
    /\ KeyIndex(taxonomy.leaf_nodes[1]) > KeyIndex(taxonomy.leaf_nodes[2])

\* C2: for every node, the stored root-to-node path is the node's ancestor
\* chain reversed (root first) and then the node itself, in integer ids, both
\* in root_to_node_path_list and in the unpadded prefix of the annotation path
\* table; the annotation table is padded with -2 and the class table, whose
\* rows are the leaves' paths, with -1.
C2_RootToNodePaths ==
    index.stage >= 3 =>
        LET id2k == index.integer_id_to_orig_node_key
            paths == index.root_to_node_path_list
            anno == index.anno_node_index_list_padded_neg_2
            cls == index.class_node_index_list_padded_neg_1
            len == max_depth(taxonomy) + 1
        IN  /\ \A id \in 0..(num_nodes_of(taxonomy) - 1) :
                 LET chain == ancestors(taxonomy, id2k[id])
                     n == Len(chain)
                 IN  /\ Len(paths[id]) = n + 1
                     /\ paths[id][n + 1] = id
                     /\ \A j \in 1..n : id2k[paths[id][j]] = chain[n + 1 - j]
                     /\ DOMAIN anno[id] = 0..(len - 1)
                     /\ \A q \in 0..(len - 1) :
                          anno[id][q] = IF q <= n THEN paths[id][q + 1] ELSE -2
            /\ DOMAIN cls = 0..(num_leaf_nodes(taxonomy) - 1)
            /\ \A y \in DOMAIN cls :
                 LET path == paths[index.leaf_integer_ids[y + 1]]
                 IN  /\ DOMAIN cls[y] = 0..(len - 1)
                     /\ \A q \in 0..(len - 1) :
                          cls[y][q] = IF q < Len(path) THEN path[q + 1] ELSE -1

\* C2 witness: path tables of a taxonomy of depth at least 2 with a leaf
\* above the deepest level, so that both tables hold padding.
C2_Witness ==
    /\ index.stage = 4
    /\ max_depth(taxonomy) >= 2
    /\ \E k \in LeafKeys(taxonomy) : level(taxonomy, k) < max_depth(taxonomy)

\* C3: a run of initialize_data_structures on a taxonomy that is not
\* finalized or whose priors are not initialized ends in an assertion error
\* and leaves every index structure as it was.
C3_PreconditionFailureLeavesIndex ==
    [][(initialize_data_structures /\ (~taxonomy.finalized \/ ~taxonomy.priors_initialized))
            => (ret'.error = "AssertionError" /\ index' = index)]_vars

\* C3 witness: the run has failed on a finalized taxonomy without priors.
C3_Witness ==
    /\ ret.op = "initialize_data_structures"
    /\ ret.error = "AssertionError"
    /\ taxonomy.finalized
    /\ ~taxonomy.priors_initialized
    /\ index = NoIndex

\* C6 as claimed: every row of M, restricted to the columns of the row's
\* sibling group, sums to exactly 1.
C6_RowsSumToOne ==
    Built =>
        \A j \in DOMAIN index.parent_and_siblings_indices :
            LET sib == Tail(index.parent_and_siblings_indices[j])
            IN  \A q \in DOMAIN sib : RowSum(ret.value.M, sib[q], sib) = One

\* C6 amended: the row of a child r of p, restricted to p's children, sums to
\* skill[p] + (1 - skill[p]) * (prior[p] - prior[r]), which is at most 1.
C6_RowSums ==
    Built =>
        \A p \in InnerKeys(taxonomy) : \A r \in taxonomy.nodes :
            taxonomy.parent[r] = p =>
                LET sib == [q \in DOMAIN children(taxonomy, p) |-> IdOf(children(taxonomy, p)[q])]
                    sum == RowSum(ret.value.M, IdOf(r), sib)
                IN  /\ sum = RAdd(BuiltSkill(p),
                                  RMul(RSub(One, BuiltSkill(p)),
                                       RSub(taxonomy.prob[p], taxonomy.prob[r])))
                    /\ RLeq(sum, One)

\* C6 witness: M built for a skill below 1 at a node with several children.
C6_Witness ==
    /\ Built
    /\ \E p \in InnerKeys(taxonomy) :
         /\ Len(children(taxonomy, p)) >= 2
         /\ RLess(BuiltSkill(p), One)

\* C7: for the children r, c of an inner node p, M[r,r] = skill[p] and
\* M[r,c] = (1 - skill[p]) * priors[c] for r # c; every other entry of M,
\* the root's row and column included, is 0.
C7_EntriesOfM ==
    Built =>
        \A kr, kc \in taxonomy.nodes :
            LET m == ret.value.M[IdOf(kr)][IdOf(kc)]
                p == taxonomy.parent[kr]
            IN  IF p # NoKey /\ taxonomy.parent[kc] = p
                THEN IF kr = kc THEN m = BuiltSkill(p)
                     ELSE m = RMul(RSub(One, BuiltSkill(p)), taxonomy.prob[kc])
                ELSE m = Zero

\* C7 witness: M built for a taxonomy with two sibling groups and skills that
\* differ between two inner nodes.
C7_Witness ==
    /\ Built
    /\ \E p, q \in InnerKeys(taxonomy) :
         /\ BuiltSkill(p) # BuiltSkill(q)
         /\ Len(children(taxonomy, p)) >= 2

\* C8: whatever enumeration order of the inner nodes the index construction
\* accepted, N[root] = 1 and N[n] = (1 - skill[parent(n)]) * priors[n] for
\* every other node n.
C8_EntriesOfN ==
    Built =>
        \A k \in taxonomy.nodes :
            ret.value.N[IdOf(k)] =
                IF is_root(taxonomy, k) THEN One
                ELSE RMul(RSub(One, BuiltSkill(taxonomy.parent[k])), taxonomy.prob[k])

\* C8 witness: N built on an index whose inner nodes were not enumerated in
\* key order, for skills that differ between two inner nodes.
C8_Witness ==
    /\ Built
    /\ \E i \in 1..(Len(taxonomy.inner_nodes) - 1) :
         KeyIndex(taxonomy.inner_nodes[i]) > KeyIndex(taxonomy.inner_nodes[i + 1])
    /\ \E p, q \in InnerKeys(taxonomy) : BuiltSkill(p) # BuiltSkill(q)

(***************************************************************************)
(* Images and annotations.                                                 *)
(***************************************************************************)
\* image.y before any label was predicted
NoLabel == "None"

\* CrowdImageMulticlassSingleBinomial.__init__: self.risk = 1.; z (the
\* annotations in arrival order), y and finished come from CrowdImage.
NewImage == [z |-> <<>>, y |-> NoLabel, risk |-> BigOne, finished |-> FALSE]

\* CrowdLabelMulticlassSingleBinomial.__init__
NewLabel(w, label) == [worker |-> w, label |-> label, prob_prev_annos |-> None]

\* CrowdLabel.is_computer_vision()
is_computer_vision(anno, ws) == ws[anno.worker].is_computer_vision

\* if not anno.is_computer_vision() or ncv
Contributes(anno, ws, p) == ~is_computer_vision(anno, ws) \/ p.naive_computer_vision

\* A slip in the collection of the annotations: only the first is kept.
ContributingPositions_first_only(z, ws, p) == IF z = <<>> THEN <<>> ELSE <<1>>

\* The positions in z of the annotations that contribute, in arrival order.
ContributingPositions(z, ws, p) ==
    SelectSeq(XRange(1, Len(z)), LAMBDA j : Contributes(z[j], ws, p))

\* A new annotation of image i by worker w arrives: image.z[w] = label.
annotate(i, w, label) ==
    /\ \A j \in DOMAIN images[i].z : images[i].z[j].worker # w
    /\ images' = [images EXCEPT ![i].z = Append(@, NewLabel(w, label))]
    /\ ret' = Outcome("annotate", i, "", NoValue)
    /\ UNCHANGED <<taxonomy, params, index, workers>>

(***************************************************************************)
(* predict_true_labels: the label posterior engine.                        *)
(***************************************************************************)
\* annotation_probs of one worker after np.prod: ones, then the values of M
\* and then those of N scattered in (a later store wins), multiplied along
\* the path axis.  ap[y][z] for the class index y and the node id z.
annotation_probs_of(M, N, idx, t) ==
    LET insM == idx.annotation_probs_insert_from_M
        idxM == idx.annotation_probs_M_indices
        insN == idx.annotation_probs_insert_from_N
        idxN == idx.annotation_probs_N_indices
        num_nodes == Cardinality(DOMAIN idx.node_priors)
        num_classes == Len(idx.leaf_integer_ids)
        max_path_length == max_depth(t) + 1
        entry(y, z, q) ==
            LET fromN == {j \in DOMAIN insN[1] :
                            insN[1][j] = y /\ insN[2][j] = z /\ insN[3][j] = q}
                fromM == {j \in DOMAIN insM[1] :
                            insM[1][j] = y /\ insM[2][j] = z /\ insM[3][j] = q}
            IN  IF fromN # {} THEN N[idxN[1][Max(fromN)]]
                ELSE IF fromM # {} THEN M[idxM[1][Max(fromM)]][idxM[2][Max(fromM)]]
                ELSE One
    IN  [y \in 0..(num_classes - 1) |-> [z \in 0..(num_nodes - 1) |->
            RProdTo([q \in 0..(max_path_length - 2) |-> entry(y, z, q)],
                    0, max_path_length - 2)]]

\* A slip in the second row of the chain: no trust in the previous label.
second_prior_response_untrusting(node, previous_label, pt, ppnt) == ppnt

\* np.where(node_labels == previous_label, pt, ppnt)
second_prior_response(node, previous_label, pt, ppnt) ==
    IF node = previous_label THEN pt ELSE ppnt

\* One row of prob_prior_responses for wind >= 2, from the row before it.
next_prior_responses(before, previous_label, pt, ppnt, nodes) ==
    LET ppr == before[previous_label]
        no_match_sum == RSumTo([z \in nodes |-> RMul(ppnt, before[z])], 0, Max(nodes))
    IN  [z \in nodes |->
            LET num == IF z = previous_label THEN RMul(pt, ppr) ELSE RMul(ppnt, ppr)
                match == RMul(pt, before[z])
                no_match == RMul(ppnt, before[z])
                denom == RSub(RAdd(match, no_match_sum), no_match)
            IN  RDiv(num, denom)]

\* The rows 0 .. n-1 of prob_prior_responses (row wind is element wind + 1).
RECURSIVE prob_prior_responses_of(_, _, _, _)
prob_prior_responses_of(worker_labels, worker_prob_trust, node_priors, n) ==
    IF n = 0 THEN <<>>
    ELSE LET rows == prob_prior_responses_of(worker_labels, worker_prob_trust,
                                             node_priors, n - 1)
             nodes == DOMAIN node_priors
             pt == worker_prob_trust[n]
             ppnt == RMul(RSub(One, pt), node_priors[worker_labels[n]])
         IN  Append(rows,
                IF n = 1 THEN [z \in nodes |-> One]
                ELSE IF n = 2
                THEN [z \in nodes |-> second_prior_response(z, worker_labels[1], pt, ppnt)]
                ELSE next_prior_responses(rows[n - 1], worker_labels[n - 1], pt, ppnt, nodes))

\* The likelihood of class index y: exp(class_log_likelihoods[y]), i.e. the
\* class prior times, per contributing worker, num / denom.
class_likelihood(y, aps, ppr, worker_labels, idx) ==
    LET nodes == DOMAIN idx.node_priors
        term == [w \in 1..Len(worker_labels) |->
                    BigRat(RDiv(RMul(aps[w][y][worker_labels[w]], ppr[w][worker_labels[w]]),
                                RSumTo([z \in nodes |-> RMul(aps[w][y][z], ppr[w][z])],
                                       0, Max(nodes))))]
    IN  BigRatMul(BigRatProdTo(term, 1, Len(worker_labels)),
                  BigRat(idx.node_priors[idx.leaf_integer_ids[y + 1]]))

\* A slip in the choice of the label: the last class instead of the best.
arg_max_last_class(L) == Max(DOMAIN L)

\* A slip in the risk: the likelihood of the label is not normalised.
risk_of_unnormalised(L, c) == BigRatComplementOfShare(L[c], BigOne)

\* np.argmax: the first index of a largest value
arg_max(L) ==
    CHOOSE c \in DOMAIN L :
        /\ \A d \in DOMAIN L : BigRatLeq(L[d], L[c])
        /\ \A d \in DOMAIN L : d < c => BigRatLess(L[d], L[c])

\* 1 - 1 / sum(exp(ll - m)); nan when every class is at -inf.
risk_of(L, c) ==
    LET total == BigRatSumTo(L, 0, Max(DOMAIN L))
    IN  IF total = BigZero THEN BigNaN ELSE BigRatComplementOfShare(L[c], total)

\* A slip in predict_true_labels: the return of line 728 is missing, so a
\* finished image is predicted anew when trust is modelled.
predict_true_labels_of_no_second_return(img, ws, idx, t, p, avoid_if_finished) ==
    LET pos == ContributingPositions(img.z, ws, p)
        num_workers == Len(pos)
        worker_labels == [w \in 1..num_workers |->
                            idx.orig_node_key_to_integer_id[img.z[pos[w]].label]]
        worker_prob_trust == [w \in 1..num_workers |-> ws[img.z[pos[w]].worker].prob_trust]
        ppr == prob_prior_responses_of(worker_labels, worker_prob_trust,
                                       idx.node_priors, num_workers)
        cached == [j \in DOMAIN img.z |->
                    IF \E w \in 1..num_workers : pos[w] = j
                    THEN LET w == CHOOSE v \in 1..num_workers : pos[v] = j
                         IN  [img.z[j] EXCEPT !.prob_prev_annos = ppr[w][worker_labels[w]]]
                    ELSE img.z[j]]
        aps == [w \in 1..num_workers |->
                    LET MN == build_M_and_N_of(ws[img.z[pos[w]].worker].skill_vector, idx, t)
                    IN  annotation_probs_of(MN.M, MN.N, idx, t)]
        L == [y \in 0..(Len(idx.leaf_integer_ids) - 1) |->
                class_likelihood(y, aps, ppr, worker_labels, idx)]
        arg_max_index == arg_max(L)
        pred_y == idx.integer_id_to_orig_node_key[idx.leaf_integer_ids[arg_max_index + 1]]
    IN  IF avoid_if_finished /\ img.finished /\ ~p.model_worker_trust
        THEN [image |-> img, error |-> "", early |-> TRUE]
        ELSE IF idx.stage < 4
        THEN [image |-> img, error |-> "AttributeError", early |-> FALSE]
        ELSE IF \E w \in 1..num_workers : ws[img.z[pos[w]].worker].skill_vector = None
        THEN [image |-> img, error |-> "TypeError", early |-> FALSE]
        ELSE [image |-> [img EXCEPT !.z = cached, !.y = pred_y,
                                    !.risk = risk_of(L, arg_max_index)],
              error |-> "", early |-> FALSE]

\* predict_true_labels on the image img: the image afterwards and the error
\* raised, if any ("" for none).  early tells that the call returned at
\* line 635 or at line 728, before the label and the risk are computed.
predict_true_labels_of(img, ws, idx, t, p, avoid_if_finished) ==
    LET pos == ContributingPositions(img.z, ws, p)
        num_workers == Len(pos)
        worker_labels == [w \in 1..num_workers |->
                            idx.orig_node_key_to_integer_id[img.z[pos[w]].label]]
        worker_prob_trust == [w \in 1..num_workers |-> ws[img.z[pos[w]].worker].prob_trust]
        ppr == prob_prior_responses_of(worker_labels, worker_prob_trust,
                                       idx.node_priors, num_workers)
        cached == [j \in DOMAIN img.z |->
                    IF \E w \in 1..num_workers : pos[w] = j
                    THEN LET w == CHOOSE v \in 1..num_workers : pos[v] = j
                         IN  [img.z[j] EXCEPT !.prob_prev_annos = ppr[w][worker_labels[w]]]
                    ELSE img.z[j]]
        aps == [w \in 1..num_workers |->
                    LET MN == build_M_and_N_of(ws[img.z[pos[w]].worker].skill_vector, idx, t)
                    IN  annotation_probs_of(MN.M, MN.N, idx, t)]
        L == [y \in 0..(Len(idx.leaf_integer_ids) - 1) |->
                class_likelihood(y, aps, ppr, worker_labels, idx)]
        arg_max_index == arg_max(L)
        pred_y == idx.integer_id_to_orig_node_key[idx.leaf_integer_ids[arg_max_index + 1]]
    IN  IF avoid_if_finished /\ img.finished /\ ~p.model_worker_trust
        THEN [image |-> img, error |-> "", early |-> TRUE]
        ELSE IF idx.stage < 4
        THEN [image |-> img, error |-> "AttributeError", early |-> FALSE]
        ELSE IF \E w \in 1..num_workers : ws[img.z[pos[w]].worker].skill_vector = None
        THEN [image |-> img, error |-> "TypeError", early |-> FALSE]
        ELSE IF avoid_if_finished /\ img.finished
        THEN [image |-> [img EXCEPT !.z = cached], error |-> "", early |-> TRUE]
        ELSE [image |-> [img EXCEPT !.z = cached, !.y = pred_y,
                                    !.risk = risk_of(L, arg_max_index)],
              error |-> "", early |-> FALSE]

predict_true_labels(i, avoid_if_finished) ==
    LET run == predict_true_labels_of(images[i], workers, index, taxonomy, params,
                                      avoid_if_finished)
    IN  /\ images' = [images EXCEPT ![i] = run.image]
        /\ ret' = Outcome("predict_true_labels", i, run.error,
                          [NoValue EXCEPT !.early = run.early])
        /\ UNCHANGED <<taxonomy, params, index, workers>>

\* A slip in crowdsource_simple: the labels that are no leaves vote too.
crowdsource_simple_every_label_votes(i, avoid_if_finished) ==
    LET img == images[i]
        labels == [j \in DOMAIN img.z |-> img.z[j].label]
        votes(l) == Cardinality({j \in DOMAIN labels : labels[j] = l})
        most_common == {l \in Range(labels) : \A m \in Range(labels) : votes(m) <= votes(l)}
    IN  /\ index.stage >= 1
        /\ IF avoid_if_finished /\ img.finished
           THEN UNCHANGED images
           ELSE \E pred_y \in (IF labels # <<>> THEN most_common ELSE index.leaf_node_keys) :
                    images' = [images EXCEPT ![i].y = pred_y]
        /\ ret' = Outcome("crowdsource_simple", i, "", NoValue)
        /\ UNCHANGED <<taxonomy, params, index, workers>>

\* crowdsource_simple: majority vote over the leaf labels; Counter.most_common
\* breaks a tie by dict order and random.choice picks any leaf key, so either
\* is any of the candidates.
crowdsource_simple(i, avoid_if_finished) ==
    LET img == images[i]
        labels == SelectSeq([j \in DOMAIN img.z |-> img.z[j].label],
                            LAMBDA l : l \in index.leaf_node_key_set)
        votes(l) == Cardinality({j \in DOMAIN labels : labels[j] = l})
        most_common == {l \in Range(labels) : \A m \in Range(labels) : votes(m) <= votes(l)}
    IN  /\ index.stage >= 1
        /\ IF avoid_if_finished /\ img.finished
           THEN UNCHANGED images
           ELSE \E pred_y \in (IF labels # <<>> THEN most_common ELSE index.leaf_node_keys) :
                    images' = [images EXCEPT ![i].y = pred_y]
        /\ ret' = Outcome("crowdsource_simple", i, "", NoValue)
        /\ UNCHANGED <<taxonomy, params, index, workers>>

\* A slip in check_finished: a finished image is checked anew.
check_finished_of_no_latch(img, p, set_finished) ==
    IF set_finished
    THEN [img EXCEPT !.finished = (img.risk # BigNaN
                                   /\ BigRatLeq(img.risk, BigRat(p.min_risk)))]
    ELSE img

\* check_finished: finished = self.risk <= min_risk (False for nan)
check_finished_of(img, p, set_finished) ==
    IF img.finished THEN img
    ELSE IF set_finished
    THEN [img EXCEPT !.finished = (img.risk # BigNaN
                                   /\ BigRatLeq(img.risk, BigRat(p.min_risk)))]
    ELSE img

check_finished(i, set_finished) ==
    /\ images' = [images EXCEPT ![i] = check_finished_of(@, params, set_finished)]
    /\ ret' = Outcome("check_finished", i, "", NoValue)
    /\ UNCHANGED <<taxonomy, params, index, workers>>

(***************************************************************************)
(* estimate_parameters: the worker's skills from the current labels.       *)
(***************************************************************************)
\* The clipping constants of lines 941, 942 and 987: 0.00000001, 0.99999, 0.9999
ClipMin == Rat(1, 100000000)
SkillClipMax == Rat(99999, 100000)
TrustClipMax == Rat(9999, 10000)

\* worker.images: the images the worker has annotated, in id order.
images_of(w, imgs) ==
    SelectSeq(XRange(1, Cardinality(DOMAIN imgs)), LAMBDA i : \E j \in DOMAIN imgs[i].z : imgs[i].z[j].worker = w)

\* image.z[self.id] and image.z.keys().index(self.id)
position_of(w, img) == CHOOSE j \in DOMAIN img.z : img.z[j].worker = w
label_of(w, img) == img.z[position_of(w, img)].label

\* A slip in the first loop: the images with one annotation are counted too.
counted_images_of_every_image(w, imgs) ==
    SelectSeq(XRange(1, Cardinality(DOMAIN imgs)),
              LAMBDA i : \E j \in DOMAIN imgs[i].z : imgs[i].z[j].worker = w)

\* The images of the first loop: those with more than one annotation.
counted_images_of(w, imgs) == SelectSeq(images_of(w, imgs), LAMBDA i : Len(imgs[i].z) > 1)

\* skill_counts_denom[n]: the counted images whose label's path passes
\* through n above its last node (y_node_list[:-1]).
skill_counts_denom_of(w, imgs, idx, n) ==
    LET counted == counted_images_of(w, imgs)
    IN  Cardinality({c \in DOMAIN counted :
            LET y_node_list ==
                    idx.root_to_node_path_list[idx.orig_node_key_to_integer_id[imgs[counted[c]].y]]
            IN  \E q \in 1..(Len(y_node_list) - 1) : y_node_list[q] = n})

\* skill_counts_num[n]: the counted images where the two paths hold the same
\* child of n (the loop stops where the worker's path ends).
skill_counts_num_of(w, imgs, idx, n) ==
    LET counted == counted_images_of(w, imgs)
    IN  Cardinality({c \in DOMAIN counted :
            LET img == imgs[counted[c]]
                y_node_list == idx.root_to_node_path_list[idx.orig_node_key_to_integer_id[img.y]]
                z_node_list ==
                    idx.root_to_node_path_list[idx.orig_node_key_to_integer_id[label_of(w, img)]]
            IN  \E q \in 2..Len(y_node_list) :
                    /\ q <= Len(z_node_list)
                    /\ y_node_list[q] = z_node_list[q]
                    /\ y_node_list[q - 1] = n})

\* A slip in the update: the prior mean taken from the default skill vector.
pooled_prior_from_default(idx, n) == idx.default_skill_vector[n]

\* self.params.pooled_prob_correct_vector[n]
pooled_prior(idx, n) == idx.pooled_prob_correct_vector[n]

\* A slip in the update: the quotient is not clipped from above.
skill_estimate_no_upper_clip(beta, pooled, count_num, count_denom) ==
    LET num == RAdd(RMul(Rat(beta, 1), pooled), Rat(count_num, 1))
        denom == IF RLess(Rat(beta + count_denom, 1), ClipMin) THEN ClipMin
                 ELSE Rat(beta + count_denom, 1)
    IN  IF RLess(RDiv(num, denom), ClipMin) THEN ClipMin ELSE RDiv(num, denom)

\* np.clip((beta * pooled + num) / np.clip(beta + denom, 1e-8, None), 1e-8, 0.99999)
skill_estimate(beta, pooled, count_num, count_denom) ==
    LET num == RAdd(RMul(Rat(beta, 1), pooled), Rat(count_num, 1))
        denom == IF RLess(Rat(beta + count_denom, 1), ClipMin) THEN ClipMin
                 ELSE Rat(beta + count_denom, 1)
    IN  RClip(RDiv(num, denom), ClipMin, SkillClipMax)

estimated_skill_vector(w, imgs, idx, p) ==
    [n \in DOMAIN idx.pooled_prob_correct_vector |->
        skill_estimate(p.prob_correct_beta, pooled_prior(idx, n),
                       skill_counts_num_of(w, imgs, idx, n),
                       skill_counts_denom_of(w, imgs, idx, n))]

\* total_num_correct / max(0.0001, len(self.images))
estimated_prob(w, imgs) ==
    LET mine == images_of(w, imgs)
        correct == Cardinality({c \in DOMAIN mine : imgs[mine[c]].y = label_of(w, imgs[mine[c]])})
    IN  IF mine = <<>> THEN Zero ELSE Rat(correct, Len(mine))

\* A slip in the comparisons: the previous annotations of workers whose
\* parameters are already estimated are passed over.
trust_comparisons_skipping_estimated(w, img, ws, p) ==
    {j \in 1..((CHOOSE k \in DOMAIN img.z : img.z[k].worker = w) - 1) :
        ws[img.z[j].worker].prob = <<>>}

\* A slip in the comparisons: every previous annotation is compared,
\* whatever the mode and whoever made it.
trust_comparisons_every_previous(w, img, ws, p) ==
    {j \in DOMAIN img.z : j < (CHOOSE k \in DOMAIN img.z : img.z[k].worker = w)}

\* The annotations the worker's label is compared with on one image.
trust_comparisons(w, img, ws, p) ==
    LET our_t == position_of(w, img)
    IN  IF p.recursive_trust
        THEN IF our_t > 1 THEN {our_t - 1} ELSE {}
        ELSE {j \in 1..(our_t - 1) : Contributes(img.z[j], ws, p)}

estimated_prob_trust(w, imgs, ws, p) ==
    LET mine == images_of(w, imgs)
        compared == UNION {{<<i, j>> : j \in trust_comparisons(w, imgs[i], ws, p)} :
                            i \in Range(mine)}
        agreed == {e \in compared : imgs[e[1]].z[e[2]].label = label_of(w, imgs[e[1]])}
        prob_trust_num == RAdd(RMul(Rat(p.prob_trust_beta, 1), p.prob_trust),
                               Rat(Cardinality(agreed), 1))
        prob_trust_denom == Rat(p.prob_trust_beta + Cardinality(compared), 1)
    IN  RClip(RDiv(prob_trust_num, prob_trust_denom), ClipMin, TrustClipMax)

\* A slip in the trust update: it is done whether trust is modelled or not.
estimate_parameters_of_trust_always(w, ws, imgs, idx, p) ==
    LET mine == images_of(w, imgs)
        counted == counted_images_of(w, imgs)
        skilled == [ws[w] EXCEPT !.skill_vector = estimated_skill_vector(w, imgs, idx, p)]
        prob == estimated_prob(w, imgs)
    IN  IF idx.stage < 4
        THEN [worker |-> ws[w], error |-> "AttributeError"]
        ELSE IF \E c \in DOMAIN counted : imgs[counted[c]].y = NoLabel
        THEN [worker |-> ws[w], error |-> "AttributeError"]
        ELSE IF \E c \in DOMAIN mine : imgs[mine[c]].y = NoLabel
        THEN [worker |-> skilled, error |-> "AttributeError"]
        ELSE IF p.prob_trust_beta = 0
                /\ \A c \in DOMAIN mine : trust_comparisons(w, imgs[mine[c]], ws, p) = {}
        THEN [worker |-> [skilled EXCEPT !.prob = prob, !.skill = <<prob>>],
              error |-> "ZeroDivisionError"]
        ELSE LET prob_trust == estimated_prob_trust(w, imgs, ws, p)
             IN  [worker |-> [skilled EXCEPT !.prob = prob, !.skill = <<prob, prob_trust>>,
                                             !.prob_trust = prob_trust],
                  error |-> ""]

\* estimate_parameters of worker w: the worker afterwards and the error
\* raised, if any.  An image without a label makes image.y.label fail: in the
\* first loop (nothing assigned yet) when the image is counted, else in the
\* second loop (the skill vector already assigned).
estimate_parameters_of(w, ws, imgs, idx, p) ==
    LET mine == images_of(w, imgs)
        counted == counted_images_of(w, imgs)
        skilled == [ws[w] EXCEPT !.skill_vector = estimated_skill_vector(w, imgs, idx, p)]
        prob == estimated_prob(w, imgs)
    IN  IF idx.stage < 4
        THEN [worker |-> ws[w], error |-> "AttributeError"]
        ELSE IF \E c \in DOMAIN counted : imgs[counted[c]].y = NoLabel
        THEN [worker |-> ws[w], error |-> "AttributeError"]
        ELSE IF \E c \in DOMAIN mine : imgs[mine[c]].y = NoLabel
        THEN [worker |-> skilled, error |-> "AttributeError"]
        ELSE IF ~p.model_worker_trust
        THEN [worker |-> [skilled EXCEPT !.prob = prob, !.skill = <<prob>>], error |-> ""]
        ELSE IF p.prob_trust_beta = 0
                /\ \A c \in DOMAIN mine : trust_comparisons(w, imgs[mine[c]], ws, p) = {}
        THEN [worker |-> [skilled EXCEPT !.prob = prob, !.skill = <<prob>>],
              error |-> "ZeroDivisionError"]
        ELSE LET prob_trust == estimated_prob_trust(w, imgs, ws, p)
             IN  [worker |-> [skilled EXCEPT !.prob = prob, !.skill = <<prob, prob_trust>>,
                                             !.prob_trust = prob_trust],
                  error |-> ""]

estimate_parameters(w) ==
    LET run == estimate_parameters_of(w, workers, images, index, params)
    IN  /\ workers' = [workers EXCEPT ![w] = run.worker]
        /\ ret' = Outcome("estimate_parameters", w, run.error, NoValue)
        /\ UNCHANGED <<taxonomy, params, index, images>>

(***************************************************************************)
(* The posterior specification: every taxonomy of at most MaxNodes nodes   *)
(* with the root enumerated first, one worker whose skills are             *)
(* loaded or initialised once the index stands, and one image that the     *)
(* worker annotates, that is predicted and checked.                        *)
(***************************************************************************)
PredictWorkers == {1}
PredictImages == {1}

NoAnnotations == \A i \in DOMAIN images : images[i].z = <<>>
Unskilled(w) == workers[w].skill_vector = None

InitPredict ==
    /\ taxonomy \in RootFirstTaxonomies(MaxNodes)
    /\ params = DefaultParams
    /\ index = NoIndex
    /\ workers = [w \in PredictWorkers |-> NewWorker(params)]
    /\ images = [i \in PredictImages |-> NewImage]
    /\ ret = NoOutcome

NextPredict ==
    \/ finalize
    \/ initialize_default_priors
    \/ index.stage < 4 /\ initialize_data_structures
    \/ \E w \in DOMAIN workers :
         /\ index.stage = 4 /\ NoAnnotations /\ Unskilled(w)
         /\ parse(w, UniformSkillVectors(taxonomy))
    \/ (\A w \in DOMAIN workers : Unskilled(w)) /\ NoAnnotations /\ initialize_parameters(FALSE)
    \/ \E i \in DOMAIN images, w \in DOMAIN workers, label \in taxonomy.nodes :
         /\ index.stage = 4
         /\ \A v \in DOMAIN workers : ~Unskilled(v)
         /\ annotate(i, w, label)
    \/ \E i \in DOMAIN images, avoid_if_finished \in BOOLEAN :
         index.stage = 4 /\ predict_true_labels(i, avoid_if_finished)
    \/ \E i \in DOMAIN images : images[i].y # NoLabel /\ check_finished(i, TRUE)

SpecPredict == InitPredict /\ [][NextPredict]_vars

(***************************************************************************)
(* Properties of the posterior engine (SpecPredict).                       *)
(***************************************************************************)
\* The last operation was a predict_true_labels on image i that computed the
\* label and the risk from the present annotations.
PredictedNow(i) ==
    /\ ret.op = "predict_true_labels"
    /\ ret.who = i
    /\ ret.error = ""
    /\ ~ret.value.early

\* The skill of the worker of annotation a at the root.
RootSkill(a) == workers[a.worker].skill_vector[IdOf("root")]

\* The scenario of C4: root -> {a, b}, priors 1/2 and 1/2, one annotation
\* reporting a from a worker of skill 9/10 at the root, just predicted.
C4_Scenario(i) ==
    /\ PredictedNow(i)
    /\ taxonomy.nodes = {"root", "a", "b"}
    /\ taxonomy.parent["a"] = "root" /\ taxonomy.parent["b"] = "root"
    /\ taxonomy.prob["a"] = Rat(1, 2) /\ taxonomy.prob["b"] = Rat(1, 2)
    /\ Len(images[i].z) = 1
    /\ images[i].z[1].label = "a"
    /\ RootSkill(images[i].z[1]) = Rat(9, 10)

\* C4 as claimed: in the scenario the label is a and the risk is 1/10
\* (posterior 9/10).
C4_PosteriorNineTenths ==
    \A i \in DOMAIN images :
        C4_Scenario(i) => (images[i].y = "a" /\ BigRatEq(images[i].risk, BigRat(Rat(1, 10))))

\* C4 amended: in the scenario the label is a and the risk is 1/19: the
\* posterior of a is 0.9 * 0.5 / (0.9 * 0.5 + 0.05 * 0.5) = 18/19, the
\* likelihood of the report a under class b being (1 - 0.9) * prior[a] = 0.05.
C4_PosteriorEighteenNineteenths ==
    \A i \in DOMAIN images :
        C4_Scenario(i) => (images[i].y = "a" /\ BigRatEq(images[i].risk, BigRat(Rat(1, 19))))

\* C4 witness: the scenario has been predicted, with the leaves enumerated
\* b before a.
C4_Witness ==
    /\ C4_Scenario(1)
    /\ taxonomy.leaf_nodes = <<"b", "a">>

\* The worker of annotation a is perfect: its skill vector is all 1s.
Perfect(a) ==
    \A n \in DOMAIN workers[a.worker].skill_vector : workers[a.worker].skill_vector[n] = One

\* C5: for every taxonomy and every leaf z, predicting an image whose one
\* contributing annotation reports z and comes from a perfect worker sets the
\* label to z and the risk to 0.
C5_PerfectWorkerDecides ==
    \A i \in DOMAIN images :
        LET pos == ContributingPositions(images[i].z, workers, params)
        IN  (/\ PredictedNow(i)
             /\ Len(pos) = 1
             /\ images[i].z[pos[1]].label \in LeafKeys(taxonomy)
             /\ Perfect(images[i].z[pos[1]]))
            => (images[i].y = images[i].z[pos[1]].label /\ images[i].risk = BigZero)

\* C5 witness: a perfect worker's report of a leaf below an inner node other
\* than the root, not the first class, in a taxonomy of three classes, has
\* just been predicted.
C5_Witness ==
    /\ PredictedNow(1)
    /\ Len(images[1].z) = 1
    /\ Perfect(images[1].z[1])
    /\ images[1].z[1].label \in LeafKeys(taxonomy)
    /\ images[1].z[1].label # taxonomy.leaf_nodes[1]
    /\ num_leaf_nodes(taxonomy) >= 2
    /\ level(taxonomy, images[1].z[1].label) >= 2
    /\ images[1].risk = BigZero


(***************************************************************************)
(* The agreement specification: the taxonomies of fewer than MaxNodes      *)
(* nodes with the root enumerated first, two workers who get               *)
(* the dataset's default skill (prob_correct, drawn at construction) from  *)
(* initialize_parameters, and one image that they annotate and that is     *)
(* predicted.                                                              *)
(***************************************************************************)
AgreeWorkers == {1, 2}
AgreeSkills == {Rat(2, 5), Rat(3, 5), Rat(4, 5)}

InitAgree ==
    /\ taxonomy \in RootFirstTaxonomies(MaxNodes - 1)
    /\ params \in {[DefaultParams EXCEPT !.prob_correct = s] : s \in AgreeSkills}
    /\ index = NoIndex
    /\ workers = [w \in AgreeWorkers |-> NewWorker(params)]
    /\ images = [i \in PredictImages |-> NewImage]
    /\ ret = NoOutcome

NextAgree ==
    \/ finalize
    \/ initialize_default_priors
    \/ index.stage < 4 /\ initialize_data_structures
    \/ (\A w \in DOMAIN workers : Unskilled(w)) /\ initialize_parameters(FALSE)
    \/ \E i \in DOMAIN images, w \in DOMAIN workers, label \in taxonomy.nodes :
         /\ \A v \in DOMAIN workers : ~Unskilled(v)
         /\ annotate(i, w, label)
    \/ \E i \in DOMAIN images : index.stage = 4 /\ predict_true_labels(i, FALSE)

SpecAgree == InitAgree /\ [][NextAgree]_vars

(***************************************************************************)
(* Properties of agreeing annotations (SpecAgree).                         *)
(***************************************************************************)
\* Picking a class at random is right with probability 1 / number of classes.
Chance == Rat(1, num_leaf_nodes(taxonomy))

\* The skill of the worker of annotation a is, at every inner node, above
\* lo and below 1.
SkillBetween(a, lo) ==
    \A n \in DOMAIN workers[a.worker].skill_vector :
        /\ RLess(lo, workers[a.worker].skill_vector[n])
        /\ RLess(workers[a.worker].skill_vector[n], One)

\* The image with only the first annotation of img, not yet predicted.
FirstAlone(img) == [NewImage EXCEPT !.z = <<NewLabel(img.z[1].worker, img.z[1].label)>>]

\* Two annotators of the same skill, above lo and below 1, have reported the
\* same leaf on image i, which has just been predicted.
C9_Agreeing(i, lo) ==
    /\ PredictedNow(i)
    /\ Len(images[i].z) = 2
    /\ \A j \in 1..2 : Contributes(images[i].z[j], workers, params)
    /\ images[i].z[1].label = images[i].z[2].label
    /\ images[i].z[1].label \in LeafKeys(taxonomy)
    /\ workers[images[i].z[1].worker].skill_vector = workers[images[i].z[2].worker].skill_vector
    /\ SkillBetween(images[i].z[1], lo)

\* The risk of image i is strictly below the risk that predict_true_labels
\* computes from the first annotation of the image alone.
RiskBelowFirstAlone(i) ==
    BigRatLess(images[i].risk,
               predict_true_labels_of(FirstAlone(images[i]), workers, index, taxonomy,
                                      params, FALSE).image.risk)

EstimateWorkers == {1, 2}
EstimateImages == {1}

\* The hyperparameters to draw from: the defaults; a default skill that
\* differs from the prior mean; no prior strength; a prior mean of 1; trust
\* modelling, recursive and not.
EstimateParams ==
    {DefaultParams,
     [DefaultParams EXCEPT !.prob_correct = Rat(3, 5)],
     [DefaultParams EXCEPT !.prob_correct_beta = 0],
     [DefaultParams EXCEPT !.prob_correct = One, !.prob_correct_prior = One],
     [DefaultParams EXCEPT !.model_worker_trust = TRUE],
     [DefaultParams EXCEPT !.model_worker_trust = TRUE, !.recursive_trust = FALSE]}

InitEstimate ==
    /\ taxonomy \in RootFirstTaxonomies(MaxNodes - 2)
    /\ params \in EstimateParams
    /\ index = NoIndex
    /\ workers = [w \in EstimateWorkers |-> NewWorker(params)]
    /\ images = [i \in EstimateImages |-> NewImage]
    /\ ret = NoOutcome

NextEstimate ==
    \/ finalize
    \/ initialize_default_priors
    \/ index.stage < 4 /\ initialize_data_structures
    \/ (\A w \in DOMAIN workers : Unskilled(w)) /\ initialize_parameters(FALSE)
    \/ \E i \in DOMAIN images, w \in DOMAIN workers, label \in taxonomy.nodes :
         /\ \A v \in DOMAIN workers : ~Unskilled(v)
         /\ annotate(i, w, label)
    \/ \E i \in DOMAIN images : index.stage = 4 /\ crowdsource_simple(i, FALSE)
    \/ \E w \in DOMAIN workers : ~Unskilled(w) /\ estimate_parameters(w)

SpecEstimate == InitEstimate /\ [][NextEstimate]_vars

(***************************************************************************)
(* Properties of the parameter estimator (SpecEstimate).                   *)
(***************************************************************************)
\* An estimate_parameters step of a worker w who has annotated no image and
\* holds the default skill vector that initialize_parameters gave it.
EstimateWithoutHistory(w) ==
    /\ estimate_parameters(w)
    /\ images_of(w, images) = <<>>
    /\ workers[w].skill_vector = index.default_skill_vector

\* C10 as claimed: estimate_parameters leaves the skill vector of a worker
\* with no annotated items equal to the dataset-wide default skill vector
\* that initialize_parameters gave it, whatever the hyperparameters.
C10_NoHistoryKeepsDefault ==
    [][\A w \in DOMAIN workers :
          EstimateWithoutHistory(w) => workers'[w].skill_vector = index.default_skill_vector]_vars

\* The skill of a worker without history after estimate_parameters: the prior
\* mean prob_correct_prior clipped to [1e-8, 0.99999], or 1e-8 when the prior
\* strength prob_correct_beta is 0.
NoHistorySkill ==
    IF params.prob_correct_beta > 0
    THEN RClip(params.prob_correct_prior, ClipMin, SkillClipMax)
    ELSE ClipMin

\* C10 amended: estimate_parameters sets every entry of the skill vector of
\* a worker with no annotated items to the clipped prior mean (1e-8 when
\* prob_correct_beta is 0); the vector stays equal to the default skill
\* vector exactly when prob_correct is that value, as with the default
\* hyperparameters.
C10_NoHistoryTakesPriorMean ==
    [][\A w \in DOMAIN workers :
          EstimateWithoutHistory(w) =>
            /\ DOMAIN workers'[w].skill_vector = DOMAIN index.default_skill_vector
            /\ \A n \in DOMAIN workers'[w].skill_vector :
                    workers'[w].skill_vector[n] = NoHistorySkill
            /\ (workers'[w].skill_vector = index.default_skill_vector)
                    <=> (params.prob_correct = NoHistorySkill)]_vars

\* C10 witness: a worker without history has been estimated where the default
\* skill (3/5) differs from the prior mean (4/5), another worker having
\* annotated the image.
C10_Witness ==
    /\ ret.op = "estimate_parameters"
    /\ ret.error = ""
    /\ images_of(ret.who, images) = <<>>
    /\ images[1].z # <<>>
    /\ params.prob_correct = Rat(3, 5)
    /\ \A n \in DOMAIN workers[ret.who].skill_vector :
            workers[ret.who].skill_vector[n] = Rat(4, 5)

(***************************************************************************)
(* The scatter index lists (SpecIndex).                                    *)
(***************************************************************************)
\* The padded root paths of the class index y and of the annotation node z.
PathToY(y) == index.class_node_index_list_padded_neg_1[y]
PathToZ(z) == index.anno_node_index_list_padded_neg_2[z]

\* The level of the node z in the taxonomy (the root is at level 0).
LevelOfId(z) == level(taxonomy, index.integer_id_to_orig_node_key[z])

\* The positions of the walk of the pair (y, z) where the two paths hold the
\* same node, and those where they differ.
SharedPositions(y, z) == {i \in 0..(LevelOfId(z) - 1) : PathToY(y)[i] = PathToZ(z)[i]}
DivergedPositions(y, z) == {i \in 0..(LevelOfId(z) - 1) : PathToY(y)[i] # PathToZ(z)[i]}
FirstDivergence(y, z) ==
    CHOOSE i \in DivergedPositions(y, z) : \A j \in DivergedPositions(y, z) : i <= j

\* The entries of the lists for M and for N that write the cell (y, z, i).
ScheduledFromM(y, z, i) ==
    {j \in DOMAIN index.annotation_probs_insert_from_M[1] :
        /\ index.annotation_probs_insert_from_M[1][j] = y
        /\ index.annotation_probs_insert_from_M[2][j] = z
        /\ index.annotation_probs_insert_from_M[3][j] = i}
ScheduledFromN(y, z, i) ==
    {j \in DOMAIN index.annotation_probs_insert_from_N[1] :
        /\ index.annotation_probs_insert_from_N[1][j] = y
        /\ index.annotation_probs_insert_from_N[2][j] = z
        /\ index.annotation_probs_insert_from_N[3][j] = i}

\* The pairs (class index, annotation node) of the precomputation.
ScatterPairs ==
    (0..(Len(index.leaf_integer_ids) - 1)) \X (1..(Cardinality(DOMAIN index.node_priors) - 1))

\* At the positions i of the pair (y, z) in S, exactly one read of
\* N[child of z] is scheduled, and none of M.
ReadsN(y, z, S) ==
    \A i \in S :
        /\ ScheduledFromM(y, z, i) = {}
        /\ Cardinality(ScheduledFromN(y, z, i)) = 1
        /\ \A j \in ScheduledFromN(y, z, i) :
                index.annotation_probs_N_indices[1][j] = PathToZ(z)[i + 1]

\* At the positions of the pair (y, z) where the paths hold the same node,
\* exactly one read of M[child of y, child of z] is scheduled, and none of N.
ReadsMWhereShared(y, z) ==
    \A i \in SharedPositions(y, z) :
        /\ ScheduledFromN(y, z, i) = {}
        /\ Cardinality(ScheduledFromM(y, z, i)) = 1
        /\ \A j \in ScheduledFromM(y, z, i) :
                /\ index.annotation_probs_M_indices[1][j] = PathToY(y)[i + 1]
                /\ index.annotation_probs_M_indices[2][j] = PathToZ(z)[i + 1]

\* Nothing is scheduled for the positions of the pair (y, z) in S.
NothingScheduled(y, z, S) ==
    \A i \in S : ScheduledFromM(y, z, i) = {} /\ ScheduledFromN(y, z, i) = {}

\* C15 as claimed: for every pair (class y, annotation node z other than the
\* root), the positions where the two root paths share the ancestor schedule
\* a read of M[child of y, child of z]; the first position where they differ
\* schedules exactly one read of N[child of z], and no entry is scheduled
\* for any later position of the pair.
C15_WalkStopsAtDivergence ==
    index.stage = 4 =>
        \A pair \in ScatterPairs :
            LET y == pair[1]
                z == pair[2]
            IN  /\ ReadsMWhereShared(y, z)
                /\ DivergedPositions(y, z) # {} =>
                    /\ ReadsN(y, z, {FirstDivergence(y, z)})
                    /\ NothingScheduled(y, z, DivergedPositions(y, z) \ {FirstDivergence(y, z)})
                /\ NothingScheduled(y, z, LevelOfId(z)..max_depth(taxonomy))

\* C15 amended: the positions where the two root paths share the ancestor
\* schedule a read of M[child of y, child of z]; every position from the
\* first where they differ up to the one above z's level schedules one read
\* of N[child of z at that position] (the walk does not stop); nothing is
\* scheduled from z's level on.
C15_WalkContinuesBelowDivergence ==
    index.stage = 4 =>
        \A pair \in ScatterPairs :
            LET y == pair[1]
                z == pair[2]
            IN  /\ ReadsMWhereShared(y, z)
                /\ ReadsN(y, z, DivergedPositions(y, z))
                /\ DivergedPositions(y, z) # {} =>
                    DivergedPositions(y, z) = FirstDivergence(y, z)..(LevelOfId(z) - 1)
                /\ NothingScheduled(y, z, LevelOfId(z)..max_depth(taxonomy))

\* C15 witness: the index stands for a taxonomy with an annotation node two
\* levels below the point where its path leaves the path of a class.
C15_Witness ==
    /\ index.stage = 4
    /\ \E pair \in ScatterPairs :
         /\ DivergedPositions(pair[1], pair[2]) # {}
         /\ FirstDivergence(pair[1], pair[2]) + 2 <= LevelOfId(pair[2])

(***************************************************************************)
(* The storage specification: the taxonomies of fewer than MaxNodes nodes  *)
(* with the root enumerated first, two workers, the first of whom to get   *)
(* skills is loaded from a stored vector or both are initialised, and      *)
(* whose encoded data is parsed back into either of them.                  *)
(***************************************************************************)
StoreWorkers == {1, 2}

InitStore ==
    /\ taxonomy \in RootFirstTaxonomies(MaxNodes - 1)
    /\ params = DefaultParams
    /\ index = NoIndex
    /\ workers = [w \in StoreWorkers |-> NewWorker(params)]
    /\ images = <<>>
    /\ ret = NoOutcome

NextStore ==
    \/ finalize
    \/ initialize_default_priors
    \/ index.stage < 4 /\ initialize_data_structures
    \/ \E w \in DOMAIN workers :
         /\ index.stage = 4
         /\ \A v \in DOMAIN workers : Unskilled(v)
         /\ parse(w, StoredSkillVectors(taxonomy))
    \/ (\A w \in DOMAIN workers : Unskilled(w)) /\ initialize_parameters(FALSE)
    \/ \E w \in DOMAIN workers : encode(w)
    \/ \E w \in DOMAIN workers : ret.op = "encode" /\ parse(w, {ret.value})

SpecStore == InitStore /\ [][NextStore]_vars

(***************************************************************************)
(* Properties of the worker's encoding (SpecStore).                        *)
(***************************************************************************)
\* A step that parses into worker v the data that the last operation, an
\* encode, returned.
ParsesEncoded(v) == ret.op = "encode" /\ parse(v, {ret.value})

VisionWorkers == {1, 2, 3}
ComputerVisionWorkers == {3}
VisionImages == {1}

InitVision ==
    /\ taxonomy \in RootFirstTaxonomies(MaxNodes - 2)
    /\ params \in {[DefaultParams EXCEPT !.naive_computer_vision = ncv] : ncv \in BOOLEAN}
    /\ index = NoIndex
    /\ workers = [w \in VisionWorkers |->
                    [NewWorker(params) EXCEPT !.is_computer_vision = (w \in ComputerVisionWorkers)]]
    /\ images = [i \in VisionImages |-> NewImage]
    /\ ret = NoOutcome

NextVision ==
    \/ finalize
    \/ initialize_default_priors
    \/ index.stage < 4 /\ initialize_data_structures
    \/ (\A w \in DOMAIN workers : Unskilled(w)) /\ initialize_parameters(FALSE)
    \/ \E i \in DOMAIN images, w \in DOMAIN workers, label \in taxonomy.nodes :
         /\ \A v \in DOMAIN workers : ~Unskilled(v)
         /\ ~is_root(taxonomy, label)
         /\ annotate(i, w, label)
    \/ \E i \in DOMAIN images, avoid_if_finished \in BOOLEAN :
         index.stage = 4 /\ predict_true_labels(i, avoid_if_finished)
    \/ \E i \in DOMAIN images, avoid_if_finished \in BOOLEAN :
         index.stage = 4 /\ crowdsource_simple(i, avoid_if_finished)
    \/ \E i \in DOMAIN images : images[i].y # NoLabel /\ check_finished(i, TRUE)

SpecVision == InitVision /\ [][NextVision]_vars

(***************************************************************************)
(* Properties of an image without contributing annotations (SpecVision).   *)
(***************************************************************************)
\* The index stands and no annotation of image i contributes: there is none,
\* or all are automated while naive_computer_vision is off.
ZeroContributing(i) ==
    /\ index.stage = 4
    /\ \A j \in DOMAIN images[i].z : ~Contributes(images[i].z[j], workers, params)

\* The last operation was op on image i.
LastOn(op, i) == ret.op = op /\ ret.who = i

\* The first class, in class order, among those of the largest prior.
LargestPriorLeaf ==
    LET ids == index.leaf_integer_ids
        c == CHOOSE a \in DOMAIN ids :
                /\ \A b \in DOMAIN ids : RLeq(index.node_priors[ids[b]], index.node_priors[ids[a]])
                /\ \A b \in DOMAIN ids : b < a => RLess(index.node_priors[ids[b]], index.node_priors[ids[a]])
    IN  index.integer_id_to_orig_node_key[ids[c]]

\* crowdsource_simple on image i can set the label to l.
VoteCanPick(i, l) == ENABLED (crowdsource_simple(i, FALSE) /\ images'[i].y = l)

\* The leaves that most annotations of image i name, automated or not.
MostNamedLeaves(i) ==
    LET z == images[i].z
        named(l) == Cardinality({j \in DOMAIN z : z[j].label = l})
    IN  {l \in LeafKeys(taxonomy) :
            named(l) > 0 /\ \A m \in LeafKeys(taxonomy) : named(m) <= named(l)}

\* On an image without contributing annotations, predict_true_labels and
\* crowdsource_simple end without error and leave a leaf as the label.
FallbackLeavesLeaf(i) ==
    (LastOn("predict_true_labels", i) \/ LastOn("crowdsource_simple", i)) =>
        ret.error = "" /\ images[i].y \in LeafKeys(taxonomy)

\* C11 as claimed: for an image with zero contributing annotations (none at
\* all, or only automated ones while naive_computer_vision is off), both
\* predict_true_labels and crowdsource_simple complete without error and set
\* the label to a leaf chosen by the default policy: predict_true_labels by
\* the priors, crowdsource_simple by a random pick among the leaves.
C11_FallbackByDefaultPolicy ==
    \A i \in DOMAIN images :
        ZeroContributing(i) =>
            /\ FallbackLeavesLeaf(i)
            /\ (LastOn("predict_true_labels", i) /\ ~ret.value.early) =>
                    \A l \in LeafKeys(taxonomy) :
                        RLeq(taxonomy.prob[l], taxonomy.prob[images[i].y])
            /\ \A l \in LeafKeys(taxonomy) : VoteCanPick(i, l)

\* C11 amended: for such an image both complete without error and leave a
\* leaf as the label; predict_true_labels picks the first class of the
\* largest prior, with risk 1 minus that prior; crowdsource_simple picks any
\* leaf at random only when no annotation names a leaf, and otherwise a leaf
\* that most annotations name, the automated ones included whatever
\* naive_computer_vision is.
C11_FallbackByPriorOrVote ==
    \A i \in DOMAIN images :
        ZeroContributing(i) =>
            /\ FallbackLeavesLeaf(i)
            /\ (LastOn("predict_true_labels", i) /\ ~ret.value.early) =>
                    /\ images[i].y = LargestPriorLeaf
                    /\ BigRatEq(images[i].risk,
                                BigRat(RSub(One, taxonomy.prob[LargestPriorLeaf])))
            /\ \A l \in LeafKeys(taxonomy) :
                    VoteCanPick(i, l) <=>
                        (MostNamedLeaves(i) = {} \/ l \in MostNamedLeaves(i))

\* C11 witness: with naive_computer_vision off, crowdsource_simple has
\* labelled an image whose only annotation is automated and names one of
\* several leaves: the label is that leaf.
C11_Witness ==
    /\ LastOn("crowdsource_simple", 1)
    /\ ZeroContributing(1)
    /\ Len(images[1].z) = 1
    /\ num_leaf_nodes(taxonomy) >= 2
    /\ images[1].z[1].label \in LeafKeys(taxonomy)
    /\ images[1].y = images[1].z[1].label

(***************************************************************************)
(* Properties of the prior-response chain (SpecVision).                    *)
(***************************************************************************)
\* The contributing annotations of image i in arrival order, the node each
\* reports and the trust of its worker.
ContributingAnnotations(i) ==
    SelectSeq(images[i].z, LAMBDA a : Contributes(a, workers, params))
ReportedNode(a) == index.orig_node_key_to_integer_id[a.label]
TrustOf(a) == workers[a.worker].prob_trust

\* The rows of prob_prior_responses that predict_true_labels computes for
\* image i, one per contributing annotation.
ChainRows(i) ==
    LET c == ContributingAnnotations(i)
    IN  prob_prior_responses_of([t \in DOMAIN c |-> ReportedNode(c[t])],
                                [t \in DOMAIN c |-> TrustOf(c[t])],
                                index.node_priors, Len(c))

\* predict_true_labels has just run on image i past its first return.
ChainComputed(i) ==
    /\ LastOn("predict_true_labels", i)
    /\ ret.error = ""
    /\ ~(ret.value.early /\ ~params.model_worker_trust)

\* C16: in predict_true_labels the row of the first contributing worker is 1
\* for every node z, and the row of the second contributing worker (trust
\* pt, previous worker's label p) is pt if z = p and (1 - pt) * prior[z]
\* otherwise, for every node z.
C16_SecondRowUsesPriorOfZ ==
    \A i \in DOMAIN images :
        (ChainComputed(i) /\ Len(ContributingAnnotations(i)) >= 1) =>
            LET c == ContributingAnnotations(i)
            IN  /\ \A z \in DOMAIN index.node_priors : ChainRows(i)[1][z] = One
                /\ Len(c) >= 2 =>
                    \A z \in DOMAIN index.node_priors :
                        ChainRows(i)[2][z] =
                            IF z = ReportedNode(c[1]) THEN TrustOf(c[2])
                            ELSE RMul(RSub(One, TrustOf(c[2])), index.node_priors[z])

(***************************************************************************)
(* Properties of the cached chain values (SpecVision).                     *)
(***************************************************************************)
\* The number of contributing annotations among the first j of the sequence z.
ContributingUpTo(z, j) ==
    Cardinality({k \in 1..j : Contributes(z[k], workers, params)})

\* A step after which predict_true_labels has just run on image i past its
\* first return, without error.
PredictsPastFirstReturn(i) == ChainComputed(i)'

\* C17: when predict_true_labels runs on an image past its first return,
\* every contributing annotation, at position t among the contributing ones
\* in arrival order, caches the value of row t of the chain at its own
\* reported node: 1 for the first; for the second its worker's trust if it
\* repeats the first's node, else (1 - trust) * prior[its node]; and the
\* annotations that do not contribute keep their cached value.
C17_CachedChainValues ==
    [][\A i \in DOMAIN images :
          PredictsPastFirstReturn(i) =>
            \A j \in DOMAIN images[i].z :
                LET a == images[i].z[j]
                    t == ContributingUpTo(images[i].z, j)
                    c == ContributingAnnotations(i)
                    cached == images'[i].z[j].prob_prev_annos
                IN  IF ~Contributes(a, workers, params)
                    THEN cached = a.prob_prev_annos
                    ELSE /\ cached = ChainRows(i)[t][ReportedNode(a)]
                         /\ t = 1 => cached = One
                         /\ t = 2 =>
                              cached = IF ReportedNode(a) = ReportedNode(c[1])
                                       THEN TrustOf(a)
                                       ELSE RMul(RSub(One, TrustOf(a)),
                                                 index.node_priors[ReportedNode(a)])]_vars

\* C17 witness: predict_true_labels has run on an image whose second of
\* three annotations is automated and does not contribute: it has no cached
\* value, the first caches 1 and the third, repeating the first's node, its
\* worker's trust.
C17_Witness ==
    /\ ChainComputed(1)
    /\ ~ret.value.early
    /\ Len(images[1].z) = 3
    /\ ~Contributes(images[1].z[2], workers, params)
    /\ images[1].z[2].prob_prev_annos = None
    /\ images[1].z[1].prob_prev_annos = One
    /\ images[1].z[3].label = images[1].z[1].label
    /\ images[1].z[3].prob_prev_annos = TrustOf(images[1].z[3])

(***************************************************************************)
(* The round specification: the taxonomies of at most MaxNodes - 2 nodes   *)
(* with the root first and the leaves in key order, trust modelled or not, *)
(* two workers and two images.  One round: the images are annotated at     *)
(* leaves, then predicted in any order, then the workers' parameters are   *)
(* estimated in any order; confusion models are built once the skills are  *)
(* set or estimated.                                                       *)
(***************************************************************************)
RoundWorkers == {1, 2}
RoundImages == {1, 2}

RoundParams ==
    {DefaultParams,
     [DefaultParams EXCEPT !.model_worker_trust = TRUE, !.recursive_trust = FALSE]}

\* No image is labelled and no worker's parameters are estimated yet.
Annotating ==
    /\ \A i \in DOMAIN images : images[i].y = NoLabel
    /\ \A w \in DOMAIN workers : workers[w].prob = None

\* The labelling phase of the round: no worker's parameters are estimated
\* yet.
Predicting == \A w \in DOMAIN workers : workers[w].prob = None

InitRound ==
    /\ taxonomy \in {t \in RootFirstTaxonomies(MaxNodes - 2) :
                        \A j \in 1..(Len(t.leaf_nodes) - 1) :
                            KeyIndex(t.leaf_nodes[j]) < KeyIndex(t.leaf_nodes[j + 1])}
    /\ params \in RoundParams
    /\ index = NoIndex
    /\ workers = [w \in RoundWorkers |-> NewWorker(params)]
    /\ images = [i \in RoundImages |-> NewImage]
    /\ ret = NoOutcome

NextRound ==
    \/ finalize
    \/ initialize_default_priors
    \/ index.stage < 4 /\ initialize_data_structures
    \/ (\A w \in DOMAIN workers : Unskilled(w)) /\ initialize_parameters(FALSE)
    \/ \E i \in DOMAIN images, w \in DOMAIN workers, label \in LeafKeys(taxonomy) :
         /\ \A v \in DOMAIN workers : ~Unskilled(v)
         /\ Annotating
         /\ annotate(i, w, label)
    \/ \E i \in DOMAIN images :
         /\ index.stage = 4
         /\ Predicting
         /\ predict_true_labels(i, FALSE)
    \/ \E w \in DOMAIN workers : ~Unskilled(w) /\ estimate_parameters(w)
    \/ \E w \in DOMAIN workers :
         /\ CanBuild(w)
         /\ ret.op \in {"initialize_parameters", "estimate_parameters", "build_M_and_N"}
         /\ build_M_and_N(w)

SpecRound == InitRound /\ [][NextRound]_vars

(***************************************************************************)
(* Independence within a phase, and what the operations write (SpecRound). *)
(***************************************************************************)
\* The images after predict_true_labels on image i, and the workers after
\* estimate_parameters on worker w, from the images imgs and the workers ws.
AfterPredict(imgs, i) ==
    [imgs EXCEPT ![i] = predict_true_labels_of(imgs[i], workers, index, taxonomy,
                                               params, FALSE).image]
AfterEstimate(ws, w) ==
    [ws EXCEPT ![w] = estimate_parameters_of(w, ws, images, index, params).worker]

\* C12: with the index built, for two distinct images the two orders of
\* their predict_true_labels calls leave the same labels, risks and cached
\* annotation values, and for two distinct workers the two orders of their
\* estimate_parameters calls leave the same skill vectors and trust values.
C12_OrderWithinPhaseIsIrrelevant ==
    index.stage = 4 =>
        /\ \A i, j \in DOMAIN images :
              (i # j /\ Predicting) =>
                  AfterPredict(AfterPredict(images, i), j)
                      = AfterPredict(AfterPredict(images, j), i)
        /\ \A w, v \in DOMAIN workers :
              (w # v /\ ~Unskilled(w) /\ ~Unskilled(v)) =>
                  AfterEstimate(AfterEstimate(workers, w), v)
                      = AfterEstimate(AfterEstimate(workers, v), w)

\* C12 witness: with trust modelled, both workers have annotated both images
\* in different orders and with different labels, both images are predicted
\* and one worker's parameters are estimated: its trust has moved.
C12_Witness ==
    /\ params.model_worker_trust
    /\ \A i \in DOMAIN images : Len(images[i].z) = 2 /\ images[i].y # NoLabel
    /\ images[1].z[1].worker # images[2].z[1].worker
    /\ images[1].z[1].label # images[1].z[2].label
    /\ LastOn("estimate_parameters", 1)
    /\ ret.error = ""
    /\ workers[1].prob_trust # params.prob_trust
    /\ workers[2].prob = None

\* C13: a step of estimate_parameters on worker w leaves the images, the
\* index, the taxonomy, the hyperparameters and every other worker as they
\* were, and of w changes nothing but skill_vector, prob, skill and, when
\* trust is modelled, prob_trust; a step of build_M_and_N changes no worker
\* and nothing of the dataset.
C13_WritesOnlyOwnFields ==
    [][/\ \A w \in DOMAIN workers :
            LastOn("estimate_parameters", w)' =>
                /\ UNCHANGED <<taxonomy, params, index, images>>
                /\ \A v \in DOMAIN workers : v # w => workers'[v] = workers[v]
                /\ workers'[w] = [workers[w] EXCEPT !.skill_vector = workers'[w].skill_vector,
                                                    !.prob = workers'[w].prob,
                                                    !.skill = workers'[w].skill,
                                                    !.prob_trust = workers'[w].prob_trust]
                /\ ~params.model_worker_trust => workers'[w].prob_trust = workers[w].prob_trust
       /\ (ret.op = "build_M_and_N")' => UNCHANGED <<taxonomy, params, index, workers, images>>]_vars

\* C13 witness: without trust modelling the parameters of a worker who has
\* annotated an image were estimated without error, its skill vector has
\* moved off the default and its trust is the one it had; then its confusion
\* model was built.
C13_Witness ==
    /\ ~params.model_worker_trust
    /\ LastOn("build_M_and_N", 1)
    /\ ret.error = ""
    /\ workers[1].prob # None
    /\ images_of(1, images) # <<>>
    /\ workers[1].skill_vector # index.default_skill_vector
    /\ workers[1].prob_trust = params.prob_trust
    /\ workers[2].prob = None

(***************************************************************************)
(* Properties of the skill counts and of the skill vector (SpecEstimate).  *)
(***************************************************************************)
\* estimate_parameters has just run on worker w and raised no error.
EstimatedNow(w) == LastOn("estimate_parameters", w) /\ ret.error = ""

\* The root paths of the label of image i and of the node worker w reports
\* on it.
LabelPath(i) ==
    index.root_to_node_path_list[index.orig_node_key_to_integer_id[images[i].y]]
ReportedPath(w, i) ==
    LET j == CHOOSE k \in DOMAIN images[i].z : images[i].z[k].worker = w
    IN  index.root_to_node_path_list[index.orig_node_key_to_integer_id[images[i].z[j].label]]

\* The images worker w has annotated, and those of them with two or more
\* annotations.
ItemsOf(w) == {i \in DOMAIN images : \E j \in DOMAIN images[i].z : images[i].z[j].worker = w}
SharedItemsOf(w) == {i \in ItemsOf(w) : Len(images[i].z) >= 2}

\* The items of S whose label's path passes through the inner node n, and
\* those where the worker's path holds the same child of n as the label's.
ThroughNode(S, n) ==
    {i \in S : \E q \in 1..(Len(LabelPath(i)) - 1) : LabelPath(i)[q] = n}
SameChildOf(S, w, n) ==
    {i \in S : \E q \in 1..(Len(LabelPath(i)) - 1) :
        /\ LabelPath(i)[q] = n
        /\ q + 1 <= Len(ReportedPath(w, i))
        /\ ReportedPath(w, i)[q + 1] = LabelPath(i)[q + 1]}

\* The skill vector of the just estimated worker w is the clipped estimate
\* from the counts over the items S: count_total[n] the items through n,
\* count_correct[n] those with the same child of n; and count_correct[n] is
\* at most count_total[n].
SkillFromCountsOver(w, S) ==
    \A n \in DOMAIN index.pooled_prob_correct_vector :
        /\ Cardinality(SameChildOf(S, w, n)) <= Cardinality(ThroughNode(S, n))
        /\ workers[w].skill_vector[n] =
              skill_estimate(params.prob_correct_beta, index.pooled_prob_correct_vector[n],
                             Cardinality(SameChildOf(S, w, n)),
                             Cardinality(ThroughNode(S, n)))

\* C18 as claimed: count_total[n] counts every item the worker has annotated
\* whose label's root path passes through n, however many annotations the
\* item has, and count_correct[n] those where the worker's path holds the
\* same child of n; so count_correct[n] <= count_total[n].
C18_CountsOverEveryItem ==
    \A w \in DOMAIN workers : EstimatedNow(w) => SkillFromCountsOver(w, ItemsOf(w))

\* C18 amended: the same counts, over the items the worker has annotated
\* that have at least two annotations; an item that only the worker has
\* annotated is passed over.
C18_CountsOverSharedItems ==
    \A w \in DOMAIN workers : EstimatedNow(w) => SkillFromCountsOver(w, SharedItemsOf(w))

\* C18 witness: a worker was estimated on an item with two annotations whose
\* label's path passes through an inner node where the worker reported
\* another child, or none.
C18_Witness ==
    \E w \in DOMAIN workers :
        /\ EstimatedNow(w)
        /\ \E n \in DOMAIN index.pooled_prob_correct_vector :
             /\ ThroughNode(SharedItemsOf(w), n) # {}
             /\ SameChildOf(SharedItemsOf(w), w, n) = {}

\* Every entry of the skill vector sv lies in [1e-8, 0.99999].
SkillsInRange(sv) ==
    \A n \in DOMAIN sv : RLeq(ClipMin, sv[n]) /\ RLeq(sv[n], SkillClipMax)

\* The skill vector sv has one entry per inner node.
OnePerInnerNode(sv) == DOMAIN sv = 0..(num_inner_nodes(taxonomy) - 1)

TrustWorkers == {1, 2, 3}
TrustImages == {1}

\* Trust modelling in its modes, and once without prior strength.
TrustParams ==
    {[DefaultParams EXCEPT !.model_worker_trust = TRUE, !.recursive_trust = r,
                           !.naive_computer_vision = ncv] : r, ncv \in BOOLEAN}
    \cup {[DefaultParams EXCEPT !.model_worker_trust = TRUE, !.recursive_trust = FALSE,
                                !.prob_trust_beta = 0]}

InitTrust ==
    /\ taxonomy \in {t \in RootFirstTaxonomies(MaxNodes - 2) :
                        \A j \in 1..(Len(t.leaf_nodes) - 1) :
                            KeyIndex(t.leaf_nodes[j]) < KeyIndex(t.leaf_nodes[j + 1])}
    /\ params \in TrustParams
    /\ index = NoIndex
    /\ workers = [w \in TrustWorkers |->
                    [NewWorker(params) EXCEPT !.is_computer_vision = (w \in ComputerVisionWorkers)]]
    /\ images = [i \in TrustImages |-> NewImage]
    /\ ret = NoOutcome

NextTrust ==
    \/ finalize
    \/ initialize_default_priors
    \/ index.stage < 4 /\ initialize_data_structures
    \/ (\A w \in DOMAIN workers : Unskilled(w)) /\ initialize_parameters(FALSE)
    \/ \E i \in DOMAIN images, w \in DOMAIN workers, label \in LeafKeys(taxonomy) :
         /\ \A v \in DOMAIN workers : ~Unskilled(v)
         /\ Annotating
         /\ annotate(i, w, label)
    \/ \E i \in DOMAIN images :
         /\ index.stage = 4
         /\ Predicting
         /\ crowdsource_simple(i, FALSE)
    \/ \E w \in DOMAIN workers : ~Unskilled(w) /\ estimate_parameters(w)

SpecTrust == InitTrust /\ [][NextTrust]_vars

(***************************************************************************)
(* Properties of the trust update (SpecTrust).                             *)
(***************************************************************************)
\* The position of worker w's annotation of image i in arrival order.
ArrivalOf(w, i) == CHOOSE k \in DOMAIN images[i].z : images[i].z[k].worker = w

\* Annotation j of image i was made by a computer-vision worker.
Automated(i, j) == workers[images[i].z[j].worker].is_computer_vision

\* The trust of the just estimated worker w is the clipped quotient of the
\* prior and the comparisons cmp(i) of each of its items i: each comparison
\* adds 1 to the total, and 1 to the matches iff the labels are equal (a
\* total of 0 has no quotient).
TrustFromComparisons(w, cmp(_)) ==
    LET compared == UNION {{<<i, j>> : j \in cmp(i)} : i \in ItemsOf(w)}
        matches == {e \in compared :
                       images[e[1]].z[e[2]].label = images[e[1]].z[ArrivalOf(w, e[1])].label}
        total == params.prob_trust_beta + Cardinality(compared)
    IN  /\ RLeq(ClipMin, workers[w].prob_trust) /\ RLeq(workers[w].prob_trust, TrustClipMax)
        /\ total > 0
        /\ workers[w].prob_trust =
             RClip(RDiv(RAdd(RMul(Rat(params.prob_trust_beta, 1), params.prob_trust),
                             Rat(Cardinality(matches), 1)),
                        Rat(total, 1)),
                   ClipMin, TrustClipMax)

\* With recursive_trust: the annotation immediately before the worker's own,
\* none if the worker was first.
ComparedRecursive(w, i) ==
    IF ArrivalOf(w, i) > 1 THEN {ArrivalOf(w, i) - 1} ELSE {}

\* C20 as claimed: with trust modelling on, the trust update compares the
\* worker's report on each item, with recursive_trust, with exactly the
\* annotation immediately preceding its own; without, with every
\* non-automated annotation that arrived strictly before its own and with
\* no other; the result is clipped to [1e-8, 0.9999].
C20_ComparesNonAutomatedPrevious ==
    \A w \in DOMAIN workers :
        (EstimatedNow(w) /\ params.model_worker_trust) =>
            TrustFromComparisons(w,
                LAMBDA i : IF params.recursive_trust THEN ComparedRecursive(w, i)
                           ELSE {j \in 1..(ArrivalOf(w, i) - 1) : ~Automated(i, j)})

\* C20 amended: as claimed, but without recursive_trust the automated
\* annotations that arrived before the worker's own are compared too when
\* naive_computer_vision is on.
C20_ComparesContributingPrevious ==
    \A w \in DOMAIN workers :
        (EstimatedNow(w) /\ params.model_worker_trust) =>
            TrustFromComparisons(w,
                LAMBDA i : IF params.recursive_trust THEN ComparedRecursive(w, i)
                           ELSE {j \in 1..(ArrivalOf(w, i) - 1) :
                                   ~Automated(i, j) \/ params.naive_computer_vision})

\* C20 witness: without recursive_trust and with naive_computer_vision on, a
\* worker was estimated whose annotation came third, after an automated one
\* it agrees with and a human one it disagrees with.
C20_Witness ==
    \E w \in DOMAIN workers :
        /\ EstimatedNow(w)
        /\ params.model_worker_trust /\ ~params.recursive_trust
        /\ params.naive_computer_vision
        /\ \E i \in ItemsOf(w) :
             /\ ArrivalOf(w, i) = 3
             /\ \E j, k \in 1..2 :
                  /\ Automated(i, j) /\ ~Automated(i, k)
                  /\ images[i].z[j].label = images[i].z[3].label
                  /\ images[i].z[k].label # images[i].z[3].label

(***************************************************************************)
(* The finishing specification: the taxonomies of at most MaxNodes - 2     *)
(* nodes with the leaves in key order, a risk threshold of 1/5, trust      *)
(* modelling on or off, or perfect default skills, two human workers and   *)
(* one computer-vision worker, and one image that they annotate at a leaf  *)
(* and that is predicted, voted on and checked, in skip-if-finished mode   *)
(* or not.                                                                 *)
(***************************************************************************)
FinishParams ==
    {[DefaultParams EXCEPT !.min_risk = Rat(1, 5), !.model_worker_trust = mwt] :
        mwt \in BOOLEAN}
    \cup {[DefaultParams EXCEPT !.min_risk = Rat(1, 5), !.prob_correct = One]}

InitFinish ==
    /\ taxonomy \in {t \in RootFirstTaxonomies(MaxNodes - 2) :
                        \A j \in 1..(Len(t.leaf_nodes) - 1) :
                            KeyIndex(t.leaf_nodes[j]) < KeyIndex(t.leaf_nodes[j + 1])}
    /\ params \in FinishParams
    /\ index = NoIndex
    /\ workers = [w \in VisionWorkers |->
                    [NewWorker(params) EXCEPT !.is_computer_vision = (w \in ComputerVisionWorkers)]]
    /\ images = [i \in VisionImages |-> NewImage]
    /\ ret = NoOutcome

NextFinish ==
    \/ finalize
    \/ initialize_default_priors
    \/ index.stage < 4 /\ initialize_data_structures
    \/ (\A w \in DOMAIN workers : Unskilled(w)) /\ initialize_parameters(FALSE)
    \/ \E i \in DOMAIN images, w \in DOMAIN workers, label \in LeafKeys(taxonomy) :
         /\ \A v \in DOMAIN workers : ~Unskilled(v)
         /\ annotate(i, w, label)
    \/ \E i \in DOMAIN images, avoid_if_finished \in BOOLEAN :
         index.stage = 4 /\ predict_true_labels(i, avoid_if_finished)
    \/ \E i \in DOMAIN images, avoid_if_finished \in BOOLEAN :
         index.stage = 4 /\ crowdsource_simple(i, avoid_if_finished)
    \/ \E i \in DOMAIN images, set_finished \in BOOLEAN :
         index.stage = 4 /\ check_finished(i, set_finished)

SpecFinish == InitFinish /\ [][NextFinish]_vars

(***************************************************************************)
(* Properties of the label and the risk (SpecFinish).                      *)
(***************************************************************************)
\* predict_true_labels has just recomputed the label and the risk of image i.
Recomputed(i) ==
    LastOn("predict_true_labels", i) /\ ret.error = "" /\ ~ret.value.early

\* The posterior of image i before normalisation, per class index: the class
\* prior times the normalised likelihood term of each contributing worker.
PosteriorOf(i) ==
    LET c == ContributingAnnotations(i)
        aps == [t \in DOMAIN c |->
                   LET MN == build_M_and_N_of(workers[c[t].worker].skill_vector, index, taxonomy)
                   IN  annotation_probs_of(MN.M, MN.N, index, taxonomy)]
    IN  [y \in 0..(Len(index.leaf_integer_ids) - 1) |->
            class_likelihood(y, aps, ChainRows(i), [t \in DOMAIN c |-> ReportedNode(c[t])],
                             index)]

\* The class index of the label of image i.
ClassOfLabel(i) ==
    CHOOSE y \in 0..(Len(index.leaf_integer_ids) - 1) :
        index.integer_id_to_orig_node_key[index.leaf_integer_ids[y + 1]] = images[i].y

\* The risk r is a number in [lo, hi].
RiskWithin(r, lo, hi) == r # BigNaN /\ BigRatLeq(lo, r) /\ BigRatLeq(r, hi)

\* C21: when predict_true_labels recomputes an item, the label is a class of
\* maximal posterior and the risk is 1 minus that class's share of the
\* normalised posterior, so at most 1 - 1/numClasses; and after any sequence
\* of operations every item's risk is in [0, 1].
C21_LabelMaximalRiskInRange ==
    \A i \in DOMAIN images :
        /\ RiskWithin(images[i].risk, BigZero, BigOne)
        /\ Recomputed(i) =>
             LET L == PosteriorOf(i)
                 c == ClassOfLabel(i)
                 total == BigRatSumTo(L, 0, Len(index.leaf_integer_ids) - 1)
             IN  /\ \A d \in DOMAIN L : BigRatLeq(L[d], L[c])
                 /\ total # BigZero
                 /\ BigRatEq(images[i].risk, BigRatComplementOfShare(L[c], total))
                 /\ RiskWithin(images[i].risk, BigZero,
                               BigRat(Rat(Len(index.leaf_integer_ids) - 1,
                                          Len(index.leaf_integer_ids))))

(***************************************************************************)
(* Properties of the skip-if-finished mode (SpecFinish).                   *)
(***************************************************************************)
\* A step that leaves the label, the risk and the finished flag of image i
\* and the reports of its annotations as they are.
KeepsLabelAndRisk(i) ==
    /\ images'[i].y = images[i].y
    /\ images'[i].risk = images[i].risk
    /\ images'[i].finished = images[i].finished
    /\ Len(images'[i].z) = Len(images[i].z)
    /\ \A j \in DOMAIN images[i].z :
         /\ images'[i].z[j].worker = images[i].z[j].worker
         /\ images'[i].z[j].label = images[i].z[j].label

\* A step after which every contributing annotation of image i caches the
\* value of its row of the chain at its own node, and the others cache what
\* they cached before.
CachesChain(i) ==
    \A j \in DOMAIN images[i].z :
        LET a == images[i].z[j]
        IN  images'[i].z[j].prob_prev_annos =
                IF Contributes(a, workers, params)
                THEN ChainRows(i)[ContributingUpTo(images[i].z, j)][ReportedNode(a)]
                ELSE a.prob_prev_annos

\* C22: on a finished item, crowdsource_simple in skip-if-finished mode
\* changes nothing, and predict_true_labels in skip-if-finished mode leaves
\* the label and the risk unchanged: with trust modelling on it recomputes
\* the cached prob_prev_annos of the contributing annotations, with trust
\* modelling off it changes nothing at all.
C22_SkipIfFinished ==
    [][\A i \in DOMAIN images :
          images[i].finished =>
            /\ crowdsource_simple(i, TRUE) => UNCHANGED <<images, workers, index, params>>
            /\ predict_true_labels(i, TRUE) =>
                 /\ KeepsLabelAndRisk(i)
                 /\ UNCHANGED <<workers, index, params>>
                 /\ IF params.model_worker_trust THEN CachesChain(i)
                    ELSE UNCHANGED images]_vars

\* C22 witness: with trust modelling on, predict_true_labels has returned
\* early on a finished image with two contributing annotations, both cached,
\* and an automated one without a cached value, while the risk is not the
\* one the present annotations give.
C22_Witness ==
    \E i \in DOMAIN images :
        /\ LastOn("predict_true_labels", i) /\ ret.value.early
        /\ images[i].finished /\ params.model_worker_trust
        /\ Len(ContributingAnnotations(i)) = 2
        /\ \A j \in DOMAIN images[i].z :
             Contributes(images[i].z[j], workers, params)
                <=> images[i].z[j].prob_prev_annos # None
        /\ \E j \in DOMAIN images[i].z : ~Contributes(images[i].z[j], workers, params)
        /\ LET L == PosteriorOf(i)
               total == BigRatSumTo(L, 0, Len(index.leaf_integer_ids) - 1)
           IN  ~BigRatEq(images[i].risk, BigRatComplementOfShare(L[ClassOfLabel(i)], total))

(***************************************************************************)
(* Properties of the finished flag (SpecFinish).                           *)
(***************************************************************************)
\* The risk of image i is at or below the threshold of the dataset.
AtOrBelowMinRisk(i) == RiskWithin(images[i].risk, BigZero, BigRat(params.min_risk))

\* C23: check_finished marks an unfinished item finished exactly when its
\* risk is at or below min_risk and set_finished is true; with set_finished
\* false the flag is not modified; a finished item stays finished under
\* every check_finished call, whatever its risk; nothing else of the item
\* changes.
C23_FinishedIsALatch ==
    [][\A i \in DOMAIN images, set_finished \in BOOLEAN :
          check_finished(i, set_finished) =>
            /\ images'[i].finished =
                 IF images[i].finished THEN TRUE
                 ELSE IF set_finished THEN AtOrBelowMinRisk(i)
                 ELSE FALSE
            /\ images' = [images EXCEPT ![i].finished = images'[i].finished]]_vars

\* C23 witness: check_finished has run on a finished image whose risk has
\* since risen above min_risk, and the image is still finished.
C23_Witness ==
    \E i \in DOMAIN images :
        /\ LastOn("check_finished", i)
        /\ images[i].finished
        /\ images[i].risk # BigNaN
        /\ ~AtOrBelowMinRisk(i)

(***************************************************************************)
(* The label, the risk and the workers' trust (SpecAgree).                 *)
(***************************************************************************)
\* The image i as predict_true_labels leaves it when every worker's
\* prob_trust is pt and nothing else differs.
PredictedWithTrust(i, pt) ==
    predict_true_labels_of(images[i],
                           [w \in DOMAIN workers |-> [workers[w] EXCEPT !.prob_trust = pt]],
                           index, taxonomy, params, FALSE).image

\* C24: with trust modelling off, the label and the risk that
\* predict_true_labels computes do not depend on the workers' prob_trust:
\* a run that differs only in prob_trust yields the same label and the same
\* risk, for any number of contributing annotations.
C24_TrustIsIgnoredWhenNotModelled ==
    \A i \in DOMAIN images :
        (Recomputed(i) /\ ~params.model_worker_trust) =>
            \A pt \in {Rat(1, 2), Rat(9, 10)} :
                /\ PredictedWithTrust(i, pt).y = images[i].y
                /\ BigRatEq(PredictedWithTrust(i, pt).risk, images[i].risk)

(***************************************************************************)
(* The label is a leaf (SpecVision).                                       *)
(***************************************************************************)
\* C25: after any sequence of crowdsource_simple and predict_true_labels
\* calls, the label of an item, once set, is the key of a leaf of the
\* taxonomy, also when every annotation of the item reports an inner node.
C25_LabelIsALeaf ==
    \A i \in DOMAIN images :
        images[i].y # NoLabel =>
            /\ images[i].y \in taxonomy.nodes
            /\ is_leaf(taxonomy, images[i].y)

\* C25 witness: an image with two annotations, both at inner nodes, has
\* been labelled by crowdsource_simple.
C25_Witness ==
    \E i \in DOMAIN images :
        /\ images[i].y # NoLabel
        /\ LastOn("crowdsource_simple", i)
        /\ Len(images[i].z) >= 2
        /\ \A j \in DOMAIN images[i].z : ~is_leaf(taxonomy, images[i].z[j].label)

(***************************************************************************)
(* The previous annotation in the two operations (SpecTrust).              *)
(***************************************************************************)
\* The annotation of image i whose label predict_true_labels takes as the
\* previous label of worker w in the chain: the contributing annotation
\* before w's own among the contributing ones, none if w's is the first.
PreviousInChain(w, i) ==
    LET before == {j \in 1..(ArrivalOf(w, i) - 1) :
                      Contributes(images[i].z[j], workers, params)}
    IN  IF before = {} THEN {} ELSE {Max(before)}

\* C26: in recursive trust mode, for every item and arrival order, automated
\* annotations included, the annotation that estimate_parameters compares a
\* worker's report with is the one whose label predict_true_labels uses as
\* that worker's previous label in the chain.
C26_SamePreviousAnnotation ==
    \A w \in DOMAIN workers :
        (/\ EstimatedNow(w)
         /\ params.model_worker_trust /\ params.recursive_trust
         /\ \A i \in ItemsOf(w) :
               Contributes(images[i].z[ArrivalOf(w, i)], workers, params)) =>
            TrustFromComparisons(w, LAMBDA i : PreviousInChain(w, i))

====
